---- MODULE Spec2Model ----
(***************************************************************************)
(* A model of the REXX call-graph scanner of src/parser.js.                *)
(*                                                                         *)
(* Text is a sequence of one-character strings.  The regular expressions   *)
(* of the source are written out as the character-level matchers they      *)
(* denote.  One scan (one invocation of parseRexxControlFlow) is a small   *)
(* state machine: the line loop, the statement/match loop inside           *)
(* processStatementBlock, and the final sort.  Every variable is a         *)
(* function from the running invocations to that invocation's local.       *)
(***************************************************************************)
EXTENDS Integers, Sequences, FiniteSets, TLC

\* ------------------------------------------------------------------------
\* Characters
\* ------------------------------------------------------------------------

LowerLetters ==
    <<"a","b","c","d","e","f","g","h","i","j","k","l","m",
      "n","o","p","q","r","s","t","u","v","w","x","y","z">>

UpperLetters ==
    <<"A","B","C","D","E","F","G","H","I","J","K","L","M",
      "N","O","P","Q","R","S","T","U","V","W","X","Y","Z">>

LowerSet == {LowerLetters[k] : k \in DOMAIN LowerLetters}

UpperSet == {UpperLetters[k] : k \in DOMAIN UpperLetters}

DigitSet == {"0","1","2","3","4","5","6","7","8","9"}

\* The symbol characters of the identifier classes [A-Za-z0-9_.$!?@#].
SymbolSet == {"_", ".", "$", "!", "?", "@", "#"}

\* \s of the regular expressions, restricted to the white space the inputs use.
SpaceSet == {" ", "\t", "\n", "\r"}

UpperOf == [c \in LowerSet |-> UpperLetters[CHOOSE k \in DOMAIN LowerLetters : LowerLetters[k] = c]]

IsSpace(c) == c \in SpaceSet

\* \w, the class that decides \b.
IsWord(c) == c \in UpperSet \/ c \in LowerSet \/ c \in DigitSet \/ c = "_"

\* [A-Za-z0-9_.$!?@#], the label class of the line loop.
IsLabelChar(c) == c \in UpperSet \/ c \in LowerSet \/ c \in DigitSet \/ c \in SymbolSet

\* [A-Z0-9_.$!?@#], the target class of callPattern.
IsTargetChar(c) == c \in UpperSet \/ c \in DigitSet \/ c \in SymbolSet

toUpperCase(t) == [k \in DOMAIN t |-> IF t[k] \in LowerSet THEN UpperOf[t[k]] ELSE t[k]]

\* t[a..b] as a sequence (empty when a > b).
Slice(t, a, b) == [k \in 1..(b - a + 1) |-> t[a + k - 1]]

\* Operator arguments are evaluated once, definitions of a LET at every use:
\* a value that is used more than once is handed on as an argument.

\* The least element of a set of numbers, or d when the set is empty.
MinOr(S, d) == IF S = {} THEN d ELSE CHOOSE q \in S : \A r \in S : q <= r

\* The greatest element of a set of numbers, or d when the set is empty.
MaxOr(S, d) == IF S = {} THEN d ELSE CHOOSE q \in S : \A r \in S : q >= r

\* The first position >= p of t whose character is not white space (Len(t)+1 if none).
SkipSpaces(t, p) == MinOr({q \in p..Len(t) : ~IsSpace(t[q])}, Len(t) + 1)

\* The last position of t whose character is not white space (0 if none).
LastNonSpace(t) == MaxOr({q \in DOMAIN t : ~IsSpace(t[q])}, 0)

\* String.prototype.trim
trim(t) == Slice(t, SkipSpaces(t, 1), LastNonSpace(t))

Chars(marked) == [k \in DOMAIN marked |-> marked[k].ch]

\* replace(/\s+/g, " "): every maximal run of white space becomes one blank,
\* that is, the first character of a run is written as a blank and the others
\* of the run are dropped.
ReplaceRuns(t) ==
    Chars(SelectSeq([q \in DOMAIN t |->
                       [ch   |-> IF IsSpace(t[q]) THEN " " ELSE t[q],
                        keep |-> ~IsSpace(t[q]) \/ q = 1 \/ ~IsSpace(t[q - 1])]],
                    LAMBDA m : m.keep))

collapse(t) == trim(ReplaceRuns(t))

\* normalizeLabel without toUpperCase.
normalizeLabelAsWritten(t) == trim(t)

normalizeLabel(t) == toUpperCase(trim(t))

\* source.split(/\r?\n/) from position p on; q is the position of the first
\* "\n" from p on.  The line ends before it, and before the "\r" in front of
\* it when there is one.
RECURSIVE SplitLinesFrom(_, _)
SplitLinesAt(src, p, q) ==
    IF q > Len(src) THEN <<Slice(src, p, Len(src))>>
    ELSE <<Slice(src, p, IF q > p /\ src[q - 1] = "\r" THEN q - 2 ELSE q - 1)>>
         \o SplitLinesFrom(src, q + 1)

\* split at every \r and every \n: a line end of two characters ends two lines.
SplitLinesEveryBreak(src, p) ==
    SplitLinesAt(src, p, MinOr({r \in p..Len(src) : src[r] \in {"\n", "\r"}}, Len(src) + 1))

SplitLinesFrom(src, p) ==
    SplitLinesAt(src, p, MinOr({r \in p..Len(src) : src[r] = "\n"}, Len(src) + 1))

SplitLines(src) == SplitLinesFrom(src, 1)

\* ------------------------------------------------------------------------
\* stripComments
\* ------------------------------------------------------------------------

\* The pair line.slice(q, q + 2) is the marker <<a, b>>.
PairAt(ln, q, a, b) == q < Len(ln) /\ ln[q] = a /\ ln[q + 1] = b

Stripped(kept, rest) ==
    [line |-> kept \o rest.line, inBlockComment |-> rest.inBlockComment]

\* The loop of stripComments from position p on, taken marker by marker; q is
\* the position of the next marker that changes the state.  Outside a comment
\* every character up to the next opening marker is kept, inside a comment
\* every character up to the next closing marker is dropped, and the two
\* characters of a marker are passed together.
RECURSIVE StripFrom(_, _, _)
StripAt(ln, p, inBC, q) ==
    IF q > Len(ln)
    THEN [line |-> IF inBC THEN <<>> ELSE Slice(ln, p, Len(ln)), inBlockComment |-> inBC]
    ELSE Stripped(IF inBC THEN <<>> ELSE Slice(ln, p, q - 1), StripFrom(ln, q + 2, ~inBC))

StripFrom(ln, p, inBC) ==
    StripAt(ln, p, inBC,
            IF inBC THEN MinOr({r \in p..Len(ln) : PairAt(ln, r, "*", "/")}, Len(ln) + 1)
                    ELSE MinOr({r \in p..Len(ln) : PairAt(ln, r, "/", "*")}, Len(ln) + 1))

\* stripComments that takes no opening marker behind an odd number of quote
\* characters of the line.
RECURSIVE StripQuotedFrom(_, _, _)
StripQuotedAt(ln, p, inBC, q) ==
    IF q > Len(ln)
    THEN [line |-> IF inBC THEN <<>> ELSE Slice(ln, p, Len(ln)), inBlockComment |-> inBC]
    ELSE Stripped(IF inBC THEN <<>> ELSE Slice(ln, p, q - 1), StripQuotedFrom(ln, q + 2, ~inBC))

StripQuotedFrom(ln, p, inBC) ==
    StripQuotedAt(ln, p, inBC,
        IF inBC THEN MinOr({r \in p..Len(ln) : PairAt(ln, r, "*", "/")}, Len(ln) + 1)
        ELSE MinOr({r \in p..Len(ln) :
                       /\ PairAt(ln, r, "/", "*")
                       /\ Cardinality({k \in 1..(r - 1) : ln[k] \in {"'", "\""}}) % 2 = 0},
                   Len(ln) + 1))

stripCommentsOutsideLiterals(ln, inBC) == StripQuotedFrom(ln, 1, inBC)

\* stripComments that passes one character of a marker: the second one can
\* be the first one of the next marker.
RECURSIVE StripOverlapFrom(_, _, _)
StripOverlapAt(ln, p, inBC, q) ==
    IF q > Len(ln)
    THEN [line |-> IF inBC THEN <<>> ELSE Slice(ln, p, Len(ln)), inBlockComment |-> inBC]
    ELSE Stripped(IF inBC THEN <<>> ELSE Slice(ln, p, q - 1),
                  IF inBC THEN StripOverlapFrom(ln, q + 2, FALSE)
                          ELSE StripOverlapFrom(ln, q + 1, TRUE))

StripOverlapFrom(ln, p, inBC) ==
    StripOverlapAt(ln, p, inBC,
        IF inBC THEN MinOr({r \in p..Len(ln) : PairAt(ln, r, "*", "/")}, Len(ln) + 1)
                ELSE MinOr({r \in p..Len(ln) : PairAt(ln, r, "/", "*")}, Len(ln) + 1))

stripCommentsOverlapping(ln, inBC) == StripOverlapFrom(ln, 1, inBC)

\* stripComments that starts every line outside a comment.
stripCommentsFresh(ln, inBC) == StripFrom(ln, 1, FALSE)

stripComments(ln, inBC) == StripFrom(ln, 1, inBC)

\* ------------------------------------------------------------------------
\* Block comments, read off the whole text
\* ------------------------------------------------------------------------

NextPair(src, p, a, b) == MinOr({q \in p..Len(src) : PairAt(src, q, a, b)}, Len(src) + 1)

\* The block comments of a text from position p on (p outside a comment):
\* open is the position of the opening marker, close the position of the next
\* closing marker behind it, Len + 1 when there is none.
RECURSIVE CommentSpans(_, _)
SpanTo(src, a, b) ==
    {[open |-> a, close |-> b]} \cup (IF b > Len(src) THEN {} ELSE CommentSpans(src, b + 2))

SpanFrom(src, a) == IF a > Len(src) THEN {} ELSE SpanTo(src, a, NextPair(src, a + 2, "*", "/"))

CommentSpans(src, p) == SpanFrom(src, NextPair(src, p, "/", "*"))

\* Position p is between the markers of one of the comments.
InsideOf(spans, p) == \E c \in spans : c.open + 2 <= p /\ p < c.close

\* Position p belongs to a line end (\n, or \r in front of \n).
IsLineEnd(src, p) == src[p] = "\n" \/ (src[p] = "\r" /\ p < Len(src) /\ src[p + 1] = "\n")

EraseIn(src, spans) ==
    Chars(SelectSeq([p \in DOMAIN src |->
                       [ch |-> src[p], keep |-> ~InsideOf(spans, p) \/ IsLineEnd(src, p)]],
                    LAMBDA r : r.keep))

\* The line of position p of a text, 1-based.
LineOf(src, p) == 1 + Cardinality({q \in 1..(p - 1) : src[q] = "\n"})

\* The position at which line n of a text ends: its \n, or Len + 1.
LineEndOf(src, n) ==
    MinOr({p \in DOMAIN src : src[p] = "\n" /\ LineOf(src, p) = n}, Len(src) + 1)

\* A comment is open where line n ends.
OpenAtEnd(src, spans, n) ==
    n > 0 /\ \E c \in spans : c.open < LineEndOf(src, n) /\ LineEndOf(src, n) <= c.close

\* Position p is part of a comment, markers included.
InComment(spans, p) == \E c \in spans : c.open <= p /\ p <= c.close + 1

\* The characters of line n of a text that are not part of a comment.
KeptLine(src, spans, n) ==
    Chars(SelectSeq([p \in DOMAIN src |->
                       [ch |-> src[p],
                        keep |-> /\ LineOf(src, p) = n
                                 /\ ~IsLineEnd(src, p)
                                 /\ ~InComment(spans, p)]],
                    LAMBDA r : r.keep))

\* The text with everything between the markers of a comment taken out, line
\* ends excepted.
EraseComments(src) == EraseIn(src, CommentSpans(src, 1))


\* ------------------------------------------------------------------------
\* splitStatements
\* ------------------------------------------------------------------------

NoQuote == "none"

\* The push without the test for the empty statement.
PushAll(out, stmt) == Append(out, stmt)

Push(out, stmt) == IF stmt # <<>> THEN Append(out, stmt) ELSE out

\* The quote test that knows the single quote only.
IsSingleQuote(c) == c = "'"

IsQuoteChar(c) == c = "'" \/ c = "\""

\* The loop of splitStatements from position p on; current is t[start .. p-1],
\* the text since the last separator.  The loop is taken from one character
\* that changes its state to the next (position q): inside a literal the
\* closing quote, outside a literal the next quote or separator.
RECURSIVE SplitFrom(_, _, _, _, _)
SplitAt(t, start, out, quote, q) ==
    IF q > Len(t) THEN Push(out, collapse(Slice(t, start, Len(t))))
    ELSE IF quote # NoQuote THEN SplitFrom(t, q + 1, start, out, NoQuote)
    ELSE IF IsQuoteChar(t[q]) THEN SplitFrom(t, q + 1, start, out, t[q])
    ELSE SplitFrom(t, q + 1, q + 1, Push(out, collapse(Slice(t, start, q - 1))), NoQuote)

SplitFrom(t, p, start, out, quote) ==
    SplitAt(t, start, out, quote,
            IF quote # NoQuote
            THEN MinOr({r \in p..Len(t) : t[r] = quote}, Len(t) + 1)
            ELSE MinOr({r \in p..Len(t) : IsQuoteChar(t[r]) \/ t[r] = ";"}, Len(t) + 1))

splitStatements(t) == SplitFrom(t, 1, 1, <<>>, NoQuote)

\* ------------------------------------------------------------------------
\* The two patterns
\* ------------------------------------------------------------------------

\* The end of the maximal run of label (target) characters starting at p
\* (p - 1 when t[p] is not in the class).
LabelRunEnd(t, p) == MinOr({q \in p..Len(t) : ~IsLabelChar(t[q])}, Len(t) + 1) - 1

TargetRunEnd(t, p) == MinOr({q \in p..Len(t) : ~IsTargetChar(t[q])}, Len(t) + 1) - 1

NoLabel == [ok |-> FALSE, group1 |-> <<>>, group2 |-> <<>>]

\* e is the end of the label characters at the start of ln, c the position
\* after the white space that follows them.
LabelAt(ln, e, c) ==
    IF e >= 1 /\ c <= Len(ln) /\ ln[c] = ":"
    THEN [ok |-> TRUE, group1 |-> Slice(ln, 1, e),
          group2 |-> Slice(ln, SkipSpaces(ln, c + 1), Len(ln))]
    ELSE NoLabel

LabelUpTo(ln, e) == LabelAt(ln, e, SkipSpaces(ln, e + 1))

\* line.match(/^([A-Za-z0-9_.$!?@#]+)\s*:\s*(.*)$/) on a collapsed line (which
\* holds no line terminator, so .* runs to the end).  group1 and group2 are
\* labelMatch[1] and labelMatch[2].
labelMatch(ln) == LabelUpTo(ln, LabelRunEnd(ln, 1))

WordCALL == <<"C", "A", "L", "L">>

WordVALUE == <<"V", "A", "L", "U", "E">>

\* t holds the word w at positions p .. p + Len(w) - 1.
HasAt(t, p, w) == p + Len(w) - 1 <= Len(t) /\ \A k \in DOMAIN w : t[p + k - 1] = w[k]

\* \b between positions p - 1 and p of t.
Boundary(t, p) ==
    LET before == p > 1 /\ IsWord(t[p - 1])
        after  == p <= Len(t) /\ IsWord(t[p])
    IN  before # after

NoMatch == [found |-> FALSE, group1 |-> <<>>, group2 |-> <<>>, last |-> 0]

TargetMatch(u, q, e) ==
    IF e >= q
    THEN [found |-> TRUE, group1 |-> Slice(u, q, e), group2 |-> Slice(u, q, e), last |-> e]
    ELSE NoMatch

\* The alternation without its second alternative, the parenthesis.
CallTailNoParen(u, q) ==
    IF HasAt(u, q, WordVALUE) /\ Boundary(u, q + 5)
    THEN [found |-> TRUE, group1 |-> WordVALUE, group2 |-> <<>>, last |-> q + 4]
    ELSE TargetMatch(u, q, TargetRunEnd(u, q))

\* The alternation (VALUE\b|\(|([A-Z0-9_.$!?@#]+)) at position q of u.
CallTail(u, q) ==
    IF HasAt(u, q, WordVALUE) /\ Boundary(u, q + 5)
    THEN [found |-> TRUE, group1 |-> WordVALUE, group2 |-> <<>>, last |-> q + 4]
    ELSE IF q <= Len(u) /\ u[q] = "("
    THEN [found |-> TRUE, group1 |-> <<"(">>, group2 |-> <<>>, last |-> q]
    ELSE TargetMatch(u, q, TargetRunEnd(u, q))

\* \bCALL\b at position p of u.
\* The keyword without the word boundaries around it.
KeywordInWord(u, p) == HasAt(u, p, WordCALL)

KeywordAt(u, p) == HasAt(u, p, WordCALL) /\ Boundary(u, p) /\ Boundary(u, p + 4)

\* /\bCALL\b\s*(VALUE\b|\(|([A-Z0-9_.$!?@#]+))/ tried at position p of the
\* uppercased segment u; last is the position of the last character matched.
\* \s* is greedy and no alternative can start on white space, so giving back
\* white space never helps.
CallAt(u, p) ==
    IF KeywordAt(u, p) THEN CallTail(u, SkipSpaces(u, p + 4)) ELSE NoMatch

ExecAt(u, p) == IF p > Len(u) THEN NoMatch ELSE CallAt(u, p)

\* exec of the pattern without the g flag: lastIndex is not used and the
\* search starts at the beginning; after the first match the loop ends.
callPatternExecFirst(u, li) ==
    IF li > 0 THEN NoMatch
    ELSE ExecAt(u, MinOr({q \in 1..Len(u) : CallAt(u, q).found}, Len(u) + 1))

\* exec that takes no match behind an odd number of quote characters.
callPatternExecOutsideLiterals(u, li) ==
    ExecAt(u, MinOr({q \in (li + 1)..Len(u) :
                        /\ CallAt(u, q).found
                        /\ Cardinality({k \in 1..(q - 1) : u[k] \in {"'", "\""}}) % 2 = 0},
                    Len(u) + 1))

\* exec that does not take up lastIndex: every search starts at the beginning.
callPatternExecFromStart(u, li) ==
    ExecAt(u, MinOr({q \in 1..Len(u) : CallAt(u, q).found}, Len(u) + 1))

\* callPattern.exec(upper) with lastIndex = li (characters already passed): the
\* match at the leftmost position after li where the pattern matches.
callPatternExec(u, li) ==
    ExecAt(u, MinOr({q \in (li + 1)..Len(u) : CallAt(u, q).found}, Len(u) + 1))

\* ------------------------------------------------------------------------
\* The graph builder
\* ------------------------------------------------------------------------

MAIN == <<"M", "A", "I", "N">>

DYNAMIC_CALL == <<"D", "Y", "N", "A", "M", "I", "C", "_", "C", "A", "L", "L">>

WordON == <<"O", "N">>

WordOFF == <<"O", "F", "F">>

\* The text of an edge type, as the key template interpolates it.
TypeText(type) ==
    IF type = "calls" THEN <<"c", "a", "l", "l", "s">>
    ELSE <<"c", "a", "l", "l", "s", "-", "d", "y", "n", "a", "m", "i", "c">>

HasNode(ns, id) == \E k \in DOMAIN ns : ns[k].id = id

\* upsertNode without the guard that keeps the kind entry.
upsertNodeAnyKind(ns, id, label, line, kind) ==
    IF ~HasNode(ns, id)
    THEN Append(ns, [id |-> id, label |-> label, line |-> line, kind |-> kind])
    ELSE [k \in DOMAIN ns |->
            IF ns[k].id # id THEN ns[k]
            ELSE [ns[k] EXCEPT
                    !.line = IF line < @ THEN line ELSE @,
                    !.kind = IF kind = "function" THEN kind ELSE @]]

\* upsertNode that inserts no node for a call target seen first as a target
\* of a dynamic call.
upsertNodeNoDynamic(ns, id, label, line, kind) ==
    IF ~HasNode(ns, id)
    THEN IF kind = "dynamic" THEN ns
         ELSE Append(ns, [id |-> id, label |-> label, line |-> line, kind |-> kind])
    ELSE [k \in DOMAIN ns |->
            IF ns[k].id # id THEN ns[k]
            ELSE [ns[k] EXCEPT
                    !.line = IF line < @ THEN line ELSE @,
                    !.kind = IF @ # "entry" /\ kind = "function" THEN kind ELSE @]]

\* upsertNode that takes the line of the latest reference.
upsertNodeLatestLine(ns, id, label, line, kind) ==
    IF ~HasNode(ns, id)
    THEN Append(ns, [id |-> id, label |-> label, line |-> line, kind |-> kind])
    ELSE [k \in DOMAIN ns |->
            IF ns[k].id # id THEN ns[k]
            ELSE [ns[k] EXCEPT
                    !.line = line,
                    !.kind = IF @ # "entry" /\ kind = "function" THEN kind ELSE @]]

\* upsertNode that leaves the kind of a node as it was inserted.
upsertNodeKeepKind(ns, id, label, line, kind) ==
    IF ~HasNode(ns, id)
    THEN Append(ns, [id |-> id, label |-> label, line |-> line, kind |-> kind])
    ELSE [k \in DOMAIN ns |->
            IF ns[k].id # id THEN ns[k]
            ELSE [ns[k] EXCEPT !.line = IF line < @ THEN line ELSE @]]

\* nodes is a Map: here the sequence of its values in insertion order.
upsertNode(ns, id, label, line, kind) ==
    IF ~HasNode(ns, id)
    THEN Append(ns, [id |-> id, label |-> label, line |-> line, kind |-> kind])
    ELSE [k \in DOMAIN ns |->
            IF ns[k].id # id THEN ns[k]
            ELSE [ns[k] EXCEPT
                    !.line = IF line < @ THEN line ELSE @,
                    !.kind = IF @ # "entry" /\ kind = "function" THEN kind ELSE @]]

edgeKey(from, to, type) == from \o <<"-", ">">> \o to \o <<":">> \o TypeText(type)

\* addEdge without the look-up of the key.
addEdgeAlways(es, ks, from, to, type, line) ==
    [edges |-> Append(es, [from |-> from, to |-> to, type |-> type, line |-> line]),
     edgeKeys |-> ks \cup {from \o <<"-", ">">> \o to \o <<":">> \o TypeText(type)}]

\* addEdge that puts the new edge at the head of the list.
addEdgeAtHead(es, ks, from, to, type, line) ==
    IF edgeKey(from, to, type) \in ks
    THEN [edges |-> es, edgeKeys |-> ks]
    ELSE [edges |-> <<[from |-> from, to |-> to, type |-> type, line |-> line]>> \o es,
          edgeKeys |-> ks \cup {edgeKey(from, to, type)}]

\* The pair (edges, edgeKeys) after addEdge.
addEdge(es, ks, from, to, type, line) ==
    IF edgeKey(from, to, type) \in ks
    THEN [edges |-> es, edgeKeys |-> ks]
    ELSE [edges |-> Append(es, [from |-> from, to |-> to, type |-> type, line |-> line]),
          edgeKeys |-> ks \cup {edgeKey(from, to, type)}]

\* The collation rank of a character of an id: punctuation, then the currency
\* sign, then digits, then letters (the root collation order localeCompare uses).
CollationOrder ==
    <<"_", "!", "?", ".", "@", "#", "$",
      "0", "1", "2", "3", "4", "5", "6", "7", "8", "9">> \o UpperLetters

CharRank(c) == CHOOSE k \in DOMAIN CollationOrder : CollationOrder[k] = c

\* a.localeCompare(b) for two ids: negative, zero or positive.
RECURSIVE localeCompare(_, _)
localeCompare(a, b) ==
    IF a = <<>> /\ b = <<>> THEN 0
    ELSE IF a = <<>> THEN -1
    ELSE IF b = <<>> THEN 1
    ELSE IF a[1] # b[1] THEN CharRank(a[1]) - CharRank(b[1])
    ELSE localeCompare(Tail(a), Tail(b))

\* The comparator without the comparison of ids.
compareNodesByLine(a, b) ==
    IF a.id = MAIN THEN -1
    ELSE IF b.id = MAIN THEN 1
    ELSE a.line - b.line

\* The comparator of the final sort.
compareNodes(a, b) ==
    IF a.id = MAIN THEN -1
    ELSE IF b.id = MAIN THEN 1
    ELSE IF a.line - b.line # 0 THEN a.line - b.line
    ELSE localeCompare(a.id, b.id)

\* Array.prototype.sort (stable): insertion of each element after the last
\* element that does not compare greater.
RECURSIVE InsertSorted(_, _)
InsertSorted(sorted, x) ==
    IF sorted = <<>> THEN <<x>>
    ELSE IF compareNodes(sorted[Len(sorted)], x) <= 0 THEN Append(sorted, x)
    ELSE Append(InsertSorted(SubSeq(sorted, 1, Len(sorted) - 1), x), sorted[Len(sorted)])

RECURSIVE sortNodes(_)
sortNodes(ns) ==
    IF ns = <<>> THEN <<>>
    ELSE InsertSorted(sortNodes(SubSeq(ns, 1, Len(ns) - 1)), ns[Len(ns)])

\* ------------------------------------------------------------------------
\* toDot
\* ------------------------------------------------------------------------

Backslash == "\\"

Quote == "\""

\* value.replace(/c/g, w) for a character c and a text w.
RECURSIVE replaceAll(_, _, _)
replaceAll(v, c, w) ==
    IF v = <<>> THEN <<>>
    ELSE (IF v[1] = c THEN w ELSE <<v[1]>>) \o replaceAll(Tail(v), c, w)

\* escapeDot with the two replacements in the other order.
escapeDotQuotesFirst(value) ==
    replaceAll(replaceAll(value, Quote, <<Backslash, Quote>>),
               Backslash, <<Backslash, Backslash>>)

\* String(value).replace(/\\/g, "\\\\").replace(/\"/g, '\\\"') for a text value.
escapeDot(value) ==
    replaceAll(replaceAll(value, Backslash, <<Backslash, Backslash>>),
               Quote, <<Backslash, Quote>>)

DotHeader == <<"d","i","g","r","a","p","h"," ","R","E","X","X","C","o","n","t","r","o","l","F","l","o","w"," ","{">>

DotRankdir == <<" "," ","r","a","n","k","d","i","r","=","L","R",";">>

DotClose == <<"}">>

DotIndent == <<" "," ","\"">>

DotLabel == <<"\""," ","[","l","a","b","e","l","=","\"">>

DotArrow == <<"\""," ","-",">"," ","\"">>

DotEnd == <<"\"","]",";">>

\* The template of line 176 for a node.
nodeDeclaration(node) ==
    DotIndent \o escapeDot(node.id) \o DotLabel \o escapeDot(node.label) \o DotEnd

\* The template of line 181 for an edge.
edgeDeclaration(edge) ==
    DotIndent \o escapeDot(edge.from) \o DotArrow \o escapeDot(edge.to)
        \o DotLabel \o escapeDot(edge.type) \o DotEnd

\* out.join("\n")
RECURSIVE join(_)
join(out) ==
    IF out = <<>> THEN <<>>
    ELSE IF Len(out) = 1 THEN out[1]
    ELSE out[1] \o <<"\n">> \o join(Tail(out))

\* toDot that writes the edges in front of the nodes.
toDotEdgesFirst(g) ==
    join(<<DotHeader, DotRankdir>>
         \o [k \in DOMAIN g.edges |-> edgeDeclaration(g.edges[k])]
         \o [k \in DOMAIN g.nodes |-> nodeDeclaration(g.nodes[k])]
         \o <<DotClose>>)

\* toDot for a graph whose fields are texts.
toDot(g) ==
    join(<<DotHeader, DotRankdir>>
         \o [k \in DOMAIN g.nodes |-> nodeDeclaration(g.nodes[k])]
         \o [k \in DOMAIN g.edges |-> edgeDeclaration(g.edges[k])]
         \o <<DotClose>>)

\* ------------------------------------------------------------------------
\* Inputs
\* ------------------------------------------------------------------------

\* The most fragments a source text is put together from.
MaxFrags == 4

RECURSIVE Flatten(_)
Flatten(fs) == IF fs = <<>> THEN <<>> ELSE Head(fs) \o Flatten(Tail(fs))

\* The text t with \r\n in the place of every \n.
WithCRLF(t) == Flatten([k \in DOMAIN t |-> IF t[k] = "\n" THEN <<"\r", "\n">> ELSE <<t[k]>>])

\* Every text that is the concatenation of at most n fragments of V.
Sources(V, n) == {Flatten(fs) : fs \in UNION {[1..k -> V] : k \in 0..n}}

\* Fragments of REXX text: calls (one of MAIN, one dynamic, one handler
\* toggle), labels (one of them MAIN), line and statement separators.
Vocabulary ==
    { <<"C","A","L","L"," ","A">>,
      <<"c","a","l","l"," ","m","a","i","n"," ">>,
      <<"A",":">>,
      <<"m","a","i","n"," ",":"," ">>,
      <<"\n">>,
      <<";">>,
      <<"C","A","L","L","(","n",")">>,
      <<"C","A","L","L"," ","O","N"," ">> }

\* Fragments for the scope of calls: calls, labels, lines, block comments.
ScopeVocabulary ==
    { <<"C","A","L","L"," ","A">>,
      <<"c","a","l","l"," ","b"," ">>,
      <<"B",":">>,
      <<"a"," ",":"," ">>,
      <<"\n">>,
      <<"/","*">>,
      <<"*","/">> }

\* Fragments for the statement splitter: separators, the two quote
\* characters alone and in literals that hold a separator, calls.
SplitVocabulary ==
    { <<"C","A","L","L"," ","A",";">>,
      <<"'","x",";">>,
      <<"y","'">>,
      <<";","c","a","l","l"," ","b">>,
      <<"\"">>,
      <<";">>,
      <<"z"," ">> }

\* Fragments for dynamic calls: the two dynamic forms, the bare keyword, a
\* label with the id of the dynamic node, a label, separators.
DynamicVocabulary ==
    { <<"C","A","L","L"," ","V","A","L","U","E"," ","x">>,
      <<"c","a","l","l"," ","(","n",")">>,
      <<"C","A","L","L"," ">>,
      <<"d","y","n","a","m","i","c","_","c","a","l","l",":">>,
      <<"A",":">>,
      <<"\n">>,
      <<";">> }

\* Fragments for the call matcher inside one statement: the keyword, calls,
\* a condition in front, the handler word, the dynamic word, a label.
CallVocabulary ==
    { <<"C","A","L","L"," ">>,
      <<"C","A","L","L"," ","A">>,
      <<"c","a","l","l"," ","b"," ">>,
      <<"i","f"," ","x"," ","t","h","e","n"," ">>,
      <<"O","N"," ">>,
      <<"V","A","L","U","E"," ">>,
      <<"W",":">>,
      <<";">> }

\* Fragments for handler toggles: CALL ON, CALL OFF, labels ON and OFF, a
\* call, a letter that lengthens a word.
ToggleVocabulary ==
    { <<"C","A","L","L"," ","O","N"," ">>,
      <<"c","a","l","l"," ","o","f","f">>,
      <<"O","N",":">>,
      <<"o","f","f"," ",":"," ">>,
      <<"\n">>,
      <<"C","A","L","L"," ","A">>,
      <<"x">> }

\* Fragments for several scans at once: a call on a line of its own, and a
\* label with a dynamic call that closes a statement.
MaxScanFrags == 2

ScanVocabulary ==
    { <<"C","A","L","L"," ","A","\n">>,
      <<"b",":","c","a","l","l"," ","(","x",")",";">> }

\* Fragments for the node order: calls that close a statement, with targets
\* that differ in a symbol, a digit or a letter, labels, the line break.
SortVocabulary ==
    { <<"C","A","L","L"," ","B",";">>,
      <<"C","A","L","L"," ","A","_",";">>,
      <<"c","a","l","l"," ","a","b",";">>,
      <<"C","A","L","L"," ","A","1",";">>,
      <<"A","?",":">>,
      <<"b",":">>,
      <<"\n">> }

\* The most fragments of a text with comments.
MaxCommentFrags == 3

\* Fragments for block comments: a call and an opening marker, a closing
\* marker and a label, text with a line break and a call, a line break, an
\* opening marker with a slash behind it, a call.
CommentVocabulary ==
    { <<"C","A","L","L"," ","A"," ","/","*">>,
      <<"*","/"," ","b",":">>,
      <<"x","\n","c","a","l","l"," ","c"," ">>,
      <<"\n">>,
      <<"/","*","/">>,
      <<"C","A","L","L"," ","D">> }

\* Fragments for texts that are not well formed: an opening comment marker,
\* the two quote characters, a call, a call with an open parenthesis,
\* separators, a label.
TotalVocabulary ==
    { <<"/","*">>,
      <<"'">>,
      <<"\"">>,
      <<"C","A","L","L"," ","A">>,
      <<"c","a","l","l"," ","(">>,
      <<";">>,
      <<"\n">>,
      <<"b",":">> }

\* Fragments for texts without labels and calls: white space, a comment with
\* a call inside, a statement, the letters of the keyword inside a longer
\* word, the keyword alone, a line break, a handler toggle, a call with a
\* quoted target.
PlainVocabulary ==
    { <<" ","\t">>,
      <<"/","*"," ","c","a","l","l"," ","a"," ","*","/">>,
      <<"s","a","y"," ","x",";">>,
      <<"r","e","c","a","l","l"," ","b">>,
      <<"C","A","L","L">>,
      <<"\n">>,
      <<"C","A","L","L"," ","O","N"," ">>,
      <<"c","a","l","l"," ","'","a","'">> }

\* The most nodes and edges, taken together, of a graph given to toDot.
MaxDotItems == 2

\* Texts for the fields of such a graph: a plain name, a name with a quote and
\* a backslash behind it, a name with a backslash and a quote behind it.
DotNames == { <<"A">>, <<"a", Quote, Backslash>>, <<Backslash, Quote>> }

DotTypes == { <<"c","a","l","l","s">>, <<"c", Backslash, Backslash, Quote>> }

DotNodes == [id : DotNames, label : DotNames, line : {1}, kind : {"function"}]

DotEdges == [from : DotNames, to : DotNames, type : DotTypes, line : {1}]

SeqsOf(S, n) == UNION {[1..k -> S] : k \in 0..n}

\* The graphs with at most n nodes and edges.
DotGraphs(n) ==
    UNION {[nodes : [1..k -> DotNodes], edges : SeqsOf(DotEdges, n - k)] : k \in 0..n}

\* The most fragments of a text that is given to one invocation as it is and
\* to another one rewritten.
MaxPairFrags == 3

\* Fragments for letter case: one name as a label and as a call target in
\* three spellings, a dynamic call in small letters, a label in mixed case,
\* a line break.
CaseVocabulary ==
    { <<"f","o","o",":">>,
      <<"C","a","l","l"," ","F","o","o",";">>,
      <<"C","A","L","L"," ","F","O","O">>,
      <<"c","a","l","l"," ","v","a","l","u","e"," ","x",";">>,
      <<" ","B","a","r"," ",":"," ">>,
      <<"\n">> }

\* Fragments for line ends: a call, the line break, a label, the comment
\* markers, a carriage return on its own, a call that closes a statement.
LineEndVocabulary ==
    { <<"C","A","L","L"," ","A">>,
      <<"\n">>,
      <<"b",":">>,
      <<"/","*">>,
      <<"*","/">>,
      <<"\r">>,
      <<"c","a","l","l"," ","c",";">> }

\* The most calls of splitStatements on its own, one after the other.
MaxSplitCalls == 2

\* Fragments for splitStatements on its own: words, white space of several
\* characters, separators, the two quotes.
StatementVocabulary ==
    { <<"a">>,
      <<"b"," ","c">>,
      <<" ","\t"," ">>,
      <<";">>,
      <<";",";">>,
      <<"'">>,
      <<"\"">> }

\* Texts for the call after a call: they begin with what would close a
\* literal of the call before or go on inside it.
FollowTexts ==
    { <<"x","'",";","y">>,
      <<"\"",";","z",";">>,
      <<"u"," ",";"," ","v">> }

\* The most calls of upsertNode on its own, and the largest line given.
MaxUpserts == 3

MaxUpsertLine == 3

\* The ids and kinds given to upsertNode on its own: the kinds of the calls
\* in the line loop and in processStatementBlock.
UpsertIds == {MAIN, <<"A">>, DYNAMIC_CALL}

UpsertKinds == {"function", "dynamic"}

\* ------------------------------------------------------------------------
\* The extension: its documents, messages and values
\* ------------------------------------------------------------------------

\* The most commands, change events, disposals and messages of a behaviour.
MaxEvents == 4

Null == "null"

\* No document: no active editor, no call of renderForDocument under way.
NoDoc == [uri |-> Null, fileName |-> <<>>, languageId |-> "none"]

\* The documents of the workspace: a REXX document by its language, one by
\* the ending of its name, and one that is not supported.
Docs ==
    { [uri |-> "file:///w/a.txt", fileName |-> <<"/","w","/","a",".","t","x","t">>, languageId |-> "rexx"],
      [uri |-> "file:///w/B.REX", fileName |-> <<"/","w","/","B",".","R","E","X">>, languageId |-> "plaintext"],
      [uri |-> "file:///w/c.txt", fileName |-> <<"/","w","/","c",".","t","x","t">>, languageId |-> "plaintext"] }

\* The texts a change gives to a document.
DocTexts ==
    { <<"b",":">>,
      <<"C","A","L","L"," ","A">> }

\* Values of JavaScript as they come in msg.line: undefined, a number, a
\* string.
Undefined == [t |-> "undefined", n |-> 0, s |-> <<>>]

Num(n) == [t |-> "number", n |-> n, s |-> <<>>]

Str(s) == [t |-> "string", n |-> 0, s |-> s]

\* The null message, and the messages with a type.
NoMessage == [type |-> "null", line |-> Undefined]

LineValues == {Undefined, Num(0), Num(0 - 2), Num(3), Str(<<"x">>), Str(<<"2">>)}

Messages ==
    {NoMessage, [type |-> "filter", line |-> Num(3)]}
        \cup {[type |-> "revealLine", line |-> v] : v \in LineValues}

NoEditor == [uri |-> Null, line |-> 0, character |-> 0]

NoEvent == [kind |-> "none", uri |-> Null, msg |-> NoMessage]

LowerOf == [c \in UpperSet |-> LowerLetters[CHOOSE k \in DOMAIN UpperLetters : UpperLetters[k] = c]]

toLowerCase(t) == [k \in DOMAIN t |-> IF t[k] \in UpperSet THEN LowerOf[t[k]] ELSE t[k]]

endsWith(t, w) == Len(w) <= Len(t) /\ HasAt(t, Len(t) - Len(w) + 1, w)

isSupported(doc) ==
    \/ doc.languageId \in {"rexx", "REXX"}
    \/ endsWith(toLowerCase(doc.fileName), <<".","r","e","x","x">>)
    \/ endsWith(toLowerCase(doc.fileName), <<".","r","e","x">>)
    \/ endsWith(toLowerCase(doc.fileName), <<".","e","x","e","c">>)

\* path.basename for a POSIX path.
basename(p) == Slice(p, MaxOr({k \in DOMAIN p : p[k] = "/"}, 0) + 1, Len(p))

title(doc) == <<"R","E","X","X"," ","C","o","n","t","r","o","l"," ","F","l","o","w",":"," ">> \o basename(doc.fileName)

\* The page of the panel, kept as the two values it is built from.
renderGraphHtml(g, fileName) == [graph |-> g, fileName |-> fileName]

\* The digits of a string as a number, read from the left.
RECURSIVE DigitsValue(_, _)
DigitsValue(t, acc) ==
    IF t = <<>> THEN acc
    ELSE DigitsValue(Tail(t), 10 * acc + (CHOOSE d \in 0..9 : ToString(d) = Head(t)))

\* Number(v): nan says that the value is NaN.
Number(v) ==
    IF v.t = "number" THEN [nan |-> FALSE, n |-> v.n]
    ELSE IF v.t = "undefined" THEN [nan |-> TRUE, n |-> 0]
    ELSE IF \A k \in DOMAIN v.s : v.s[k] \in DigitSet
         THEN [nan |-> FALSE, n |-> DigitsValue(v.s, 0)]
         ELSE [nan |-> TRUE, n |-> 0]

\* The line of the handler without the lower limit.
revealedLineAsGiven(v) == IF Number(v).nan \/ Number(v).n = 0 THEN 1 ELSE Number(v).n

\* Math.max(1, Number(msg.line) || 1).
revealedLine(v) ==
    IF Number(v).nan \/ Number(v).n = 0 THEN 1
    ELSE IF Number(v).n < 1 THEN 1 ELSE Number(v).n

\* Fragments for comments and literals: a literal with an opening marker in
\* it, its closing quote and a call behind the marker; a closing marker; a
\* call behind a separator; a label on a new line; a quote; an opening marker.
QuotedVocabulary ==
    { <<"s","a","y"," ","'","x"," ","/","*"," ","y","'",";","C","A","L","L"," ","B"," ">>,
      <<"*","/">>,
      <<";","c","a","l","l"," ","d">>,
      <<"\n","c",":">>,
      <<"'">>,
      <<"/","*">> }

\* Fragments for calls inside literals: a literal with a call in it, a
\* literal with a separator and a dynamic call in it, a separator, a line
\* break, a label, a quote, a call.
LiteralVocabulary ==
    { <<"s","a","y"," ","'","c","a","l","l"," ","h","'">>,
      <<"\"","x",";","c","a","l","l"," ","(","n",")","\"">>,
      <<";">>,
      <<"\n">>,
      <<"w",":">>,
      <<"'">>,
      <<"c","a","l","l"," ","b"," ">> }

\* ------------------------------------------------------------------------
\* The scan
\* ------------------------------------------------------------------------

VARIABLES
    pc,              \* where each invocation stands: "loop", "stmt", "done"
    source,          \* the argument of parseRexxControlFlow
    lines,           \* source.split(/\r?\n/)
    i,               \* the index of the line loop (0-based)
    inBlockComment,
    currentScope,
    nodes,           \* the values of the Map nodes, in insertion order
    edges,
    edgeKeys,
    text,            \* processStatementBlock's argument text
    segs,            \* splitStatements(text)
    segIdx,          \* how many segments of segs the for-of loop has finished
    lastIndex,       \* callPattern.lastIndex
    addEdgeCalls,    \* history: the arguments of every call of addEdge so far
    result,          \* the value returned: [nodes, edges]
    graph,           \* the argument of toDot
    dot,             \* toDot: whether it has returned, and the text returned
    stmtText,        \* the argument of the next call of splitStatements on its own
    stmts,           \* splitStatements on its own: calls so far, the argument of
                     \* the call before the last, last argument and value
    upserts,         \* upsertNode on its own: the map and the calls made on it
    graphPanel,      \* activate: the panel held by the extension, 0 for null
    graphDocumentUri,\* activate: the URI the panel is associated with, or Null
    panels,          \* the window: the panels that exist, each with title and html
    created,         \* the window: how many panels have been created so far
    docText,         \* the workspace: the text of every document
    rendering,       \* renderForDocument: its argument while the call is under way
    pending,         \* the revealLine handlers that wait at an await
    editor,          \* the window: the document and position last revealed
    events,          \* how many commands, change events, disposals and messages so far
    lastEvent        \* history: the last of them

\* The variables of the scans and those of the extension.
scanVars == <<pc, source, lines, i, inBlockComment, currentScope, nodes, edges,
              edgeKeys, text, segs, segIdx, lastIndex, addEdgeCalls, result>>

extVars == <<graphPanel, graphDocumentUri, panels, created, docText, rendering,
             pending, editor, events, lastEvent>>

vars == <<pc, source, lines, i, inBlockComment, currentScope, nodes, edges,
          edgeKeys, text, segs, segIdx, lastIndex, addEdgeCalls, result, graph, dot,
          stmtText, stmts, upserts, extVars>>

\* No call of toDot: no argument and no output.
NoGraph == [nodes |-> <<>>, edges |-> <<>>]

NoDot == [returned |-> FALSE, out |-> <<>>]

\* No call of splitStatements on its own.
NoStatements == [calls |-> 0, before |-> <<>>, arg |-> <<>>, out |-> <<>>]

\* No call of upsertNode on its own.
NoUpserts == [nodes |-> <<>>, applied |-> <<>>]

NoResult == [nodes |-> <<>>, edges |-> <<>>]

\* The extension after activate: no panel, no URI; the documents are empty,
\* no handler is under way and nothing was revealed.
Activated ==
    /\ graphPanel = 0
    /\ graphDocumentUri = Null
    /\ panels = <<>>
    /\ created = 0
    /\ docText = [u \in {doc.uri : doc \in Docs} |-> <<>>]
    /\ rendering = NoDoc
    /\ pending = <<>>
    /\ editor = NoEditor
    /\ events = 0
    /\ lastEvent = NoEvent

\* The state of the invocations of I right after line 10 of each: the text is
\* split, MAIN is in the map, the scope is MAIN.
Scanning(I, src) ==
    /\ pc = [s \in I |-> "loop"]
    /\ source = src
    /\ lines = [s \in I |-> SplitLines(src[s])]
    /\ i = [s \in I |-> 0]
    /\ inBlockComment = [s \in I |-> FALSE]
    /\ currentScope = [s \in I |-> MAIN]
    /\ nodes = [s \in I |-> upsertNode(<<>>, MAIN, MAIN, 1, "entry")]
    /\ edges = [s \in I |-> <<>>]
    /\ edgeKeys = [s \in I |-> {}]
    /\ text = [s \in I |-> <<>>]
    /\ segs = [s \in I |-> <<>>]
    /\ segIdx = [s \in I |-> 0]
    /\ lastIndex = [s \in I |-> 0]
    /\ addEdgeCalls = [s \in I |-> <<>>]
    /\ result = [s \in I |-> NoResult]

\* The invocations of I are under way and toDot has not been called.
Started(I, src) ==
    /\ Scanning(I, src)
    /\ graph = NoGraph /\ dot = NoDot
    /\ stmtText = <<>> /\ stmts = NoStatements
    /\ upserts = NoUpserts
    /\ Activated

Init == \E src \in [{1} -> Sources(Vocabulary, MaxFrags)] : Started({1}, src)

InitScope == \E src \in [{1} -> Sources(ScopeVocabulary, MaxFrags)] : Started({1}, src)

InitSplit == \E src \in [{1} -> Sources(SplitVocabulary, MaxFrags)] : Started({1}, src)

InitDynamic == \E src \in [{1} -> Sources(DynamicVocabulary, MaxFrags)] : Started({1}, src)

InitCall == \E src \in [{1} -> Sources(CallVocabulary, MaxFrags)] : Started({1}, src)

InitToggle == \E src \in [{1} -> Sources(ToggleVocabulary, MaxFrags)] : Started({1}, src)

\* Three invocations under way: the first two were given the same text, the
\* third any text.
InitScans ==
    \E src \in [{1, 2, 3} -> Sources(ScanVocabulary, MaxScanFrags)] :
        src[1] = src[2] /\ Started({1, 2, 3}, src)

InitSort == \E src \in [{1} -> Sources(SortVocabulary, MaxFrags)] : Started({1}, src)

\* Two invocations: the second one is given the text of the first one with
\* the inside of every block comment taken out.
InitComment ==
    \E t \in Sources(CommentVocabulary, MaxCommentFrags) :
        Started({1, 2}, [s \in {1, 2} |-> IF s = 1 THEN t ELSE EraseComments(t)])

InitTotal == \E src \in [{1} -> Sources(TotalVocabulary, MaxFrags)] : Started({1}, src)

InitPlain == \E src \in [{1} -> Sources(PlainVocabulary, MaxFrags)] : Started({1}, src)

\* A call of toDot: no scan is under way, the argument is one of the graphs.
InitDot ==
    /\ \E g \in DotGraphs(MaxDotItems) : graph = g
    /\ dot = NoDot
    /\ stmtText = <<>> /\ stmts = NoStatements
    /\ upserts = NoUpserts
    /\ Activated
    /\ Scanning({}, <<>>)

\* Two invocations: the second one is given the text of the first one in
\* capital letters.
InitCase ==
    \E t \in Sources(CaseVocabulary, MaxPairFrags) :
        Started({1, 2}, [s \in {1, 2} |-> IF s = 1 THEN t ELSE toUpperCase(t)])

\* Two invocations: the second one is given the text of the first one with
\* \r\n for every \n.
InitLineEnd ==
    \E t \in Sources(LineEndVocabulary, MaxPairFrags) :
        Started({1, 2}, [s \in {1, 2} |-> IF s = 1 THEN t ELSE WithCRLF(t)])

\* Calls of splitStatements on its own: no scan is under way.
InitStatements ==
    /\ \E t \in Sources(StatementVocabulary, MaxFrags) : stmtText = t
    /\ stmts = NoStatements
    /\ upserts = NoUpserts
    /\ Activated
    /\ graph = NoGraph /\ dot = NoDot
    /\ Scanning({}, <<>>)


\* Calls of upsertNode on its own: the map holds MAIN as after line 7.
InitUpsert ==
    /\ upserts = [nodes |-> upsertNode(<<>>, MAIN, MAIN, 1, "entry"), applied |-> <<>>]
    /\ Activated
    /\ stmtText = <<>> /\ stmts = NoStatements
    /\ graph = NoGraph /\ dot = NoDot
    /\ Scanning({}, <<>>)


\* Two invocations on a text with literals and comments: the second one is
\* given the text with the inside of every block comment taken out.
InitQuoted ==
    \E t \in Sources(QuotedVocabulary, MaxCommentFrags) :
        Started({1, 2}, [s \in {1, 2} |-> IF s = 1 THEN t ELSE EraseComments(t)])


InitLiteral == \E src \in [{1} -> Sources(LiteralVocabulary, MaxFrags)] : Started({1}, src)


lineNo(s) == i[s] + 1

\* The call processStatementBlock(text, lineNo, currentScope, ...) up to the
\* first exec: ss is splitStatements(text); without a segment the call
\* returns at once to the line loop.
EnterBlock(s, t, ss) ==
    /\ text' = [text EXCEPT ![s] = t]
    /\ segs' = [segs EXCEPT ![s] = ss]
    /\ segIdx' = [segIdx EXCEPT ![s] = 0]
    /\ lastIndex' = [lastIndex EXCEPT ![s] = 0]
    /\ IF ss = <<>>
       THEN pc' = pc /\ i' = [i EXCEPT ![s] = @ + 1]
       ELSE pc' = [pc EXCEPT ![s] = "stmt"] /\ i' = i

\* The label branch that takes the new scope only on a line without
\* trailing text.
LabelLineLateScope(s, scope, trailing) ==
    /\ nodes' = [nodes EXCEPT ![s] = upsertNode(@, scope, scope, i[s] + 1, "function")]
    /\ IF trailing # <<>>
       THEN /\ currentScope' = currentScope
            /\ text' = [text EXCEPT ![s] = trailing]
            /\ segs' = [segs EXCEPT ![s] = splitStatements(trailing)]
            /\ segIdx' = [segIdx EXCEPT ![s] = 0]
            /\ lastIndex' = [lastIndex EXCEPT ![s] = 0]
            /\ IF splitStatements(trailing) = <<>>
               THEN pc' = pc /\ i' = [i EXCEPT ![s] = @ + 1]
               ELSE pc' = [pc EXCEPT ![s] = "stmt"] /\ i' = i
       ELSE /\ currentScope' = [currentScope EXCEPT ![s] = scope]
            /\ i' = [i EXCEPT ![s] = @ + 1]
            /\ UNCHANGED <<pc, text, segs, segIdx, lastIndex>>

\* The branch of a label line: scope is normalizeLabel(labelMatch[1]),
\* trailing is collapse(labelMatch[2]).
LabelLine(s, scope, trailing) ==
    /\ currentScope' = [currentScope EXCEPT ![s] = scope]
    /\ nodes' = [nodes EXCEPT ![s] = upsertNode(@, scope, scope, lineNo(s), "function")]
    /\ IF trailing # <<>>
       THEN EnterBlock(s, trailing, splitStatements(trailing))
       ELSE /\ i' = [i EXCEPT ![s] = @ + 1]
            /\ UNCHANGED <<pc, text, segs, segIdx, lastIndex>>

\* The loop body from the test of the collapsed line on.
LineBody(s, line, m) ==
    IF line = <<>>
    THEN /\ i' = [i EXCEPT ![s] = @ + 1]
         /\ UNCHANGED <<pc, currentScope, nodes, text, segs, segIdx, lastIndex>>
    ELSE IF m.ok
    THEN LabelLine(s, normalizeLabel(m.group1), collapse(m.group2))
    ELSE /\ EnterBlock(s, line, splitStatements(line))
         /\ UNCHANGED <<currentScope, nodes>>

CollapsedLine(s, line) == LineBody(s, line, labelMatch(line))

StrippedLine(s, stripped) ==
    /\ inBlockComment' = [inBlockComment EXCEPT ![s] = stripped.inBlockComment]
    /\ CollapsedLine(s, collapse(stripped.line))

\* One iteration of the line loop up to the call of processStatementBlock.
ScanLine(s) ==
    /\ pc[s] = "loop"
    /\ i[s] < Len(lines[s])
    /\ StrippedLine(s, stripComments(lines[s][i[s] + 1], inBlockComment[s]))
    /\ UNCHANGED <<source, lines, edges, edgeKeys, addEdgeCalls, result, graph, dot,
                   stmtText, stmts, upserts, extVars>>

IsDynamic(m) == m.group1 = WordVALUE \/ m.group1 = <<"(">>

\* The toggle test that knows ON only.
IsToggleOn(target) == target = <<"O", "N">>

IsToggle(target) == target = WordON \/ target = WordOFF

\* upsertNode and addEdge with one set of edge keys for all invocations, as
\* with a Set that belongs to the module and not to the call.
RecordShared(s, to, kind, type, added) ==
    /\ nodes' = [nodes EXCEPT ![s] = upsertNode(@, to, to, lineNo(s), kind)]
    /\ edges' = [edges EXCEPT ![s] = added.edges]
    /\ edgeKeys' = [t \in DOMAIN edgeKeys |-> edgeKeys[t] \cup added.edgeKeys]
    /\ addEdgeCalls' = [addEdgeCalls EXCEPT ![s] =
                          Append(@, [from |-> currentScope[s], to |-> to,
                                     type |-> type, line |-> lineNo(s)])]

\* The call site with upsertNode alone: no call of addEdge.
RecordNodeOnly(s, to, kind, type, added) ==
    /\ nodes' = [nodes EXCEPT ![s] = upsertNode(@, to, to, lineNo(s), kind)]
    /\ UNCHANGED <<edges, edgeKeys, addEdgeCalls>>

\* upsertNode and addEdge for one call site; added is the result of addEdge.
Record(s, to, kind, type, added) ==
    /\ nodes' = [nodes EXCEPT ![s] = upsertNode(@, to, to, lineNo(s), kind)]
    /\ edges' = [edges EXCEPT ![s] = added.edges]
    /\ edgeKeys' = [edgeKeys EXCEPT ![s] = added.edgeKeys]
    /\ addEdgeCalls' = [addEdgeCalls EXCEPT ![s] =
                          Append(@, [from |-> currentScope[s], to |-> to,
                                     type |-> type, line |-> lineNo(s)])]

\* The body of the while loop for a static match with the normalized target.
StaticCall(s, target) ==
    IF IsToggle(target)
    THEN UNCHANGED <<nodes, edges, edgeKeys, addEdgeCalls>>
    ELSE Record(s, target, "function", "calls",
                addEdge(edges[s], edgeKeys[s], currentScope[s], target, "calls", lineNo(s)))

\* The while loop for the result m of exec: the body for a match; without a
\* match the for-of loop goes to the next segment, and after the last one
\* the block returns to the line loop.
Matched(s, m) ==
    IF ~m.found
    THEN /\ lastIndex' = [lastIndex EXCEPT ![s] = 0]
         /\ segIdx' = [segIdx EXCEPT ![s] = @ + 1]
         /\ IF segIdx[s] + 1 = Len(segs[s])
            THEN pc' = [pc EXCEPT ![s] = "loop"] /\ i' = [i EXCEPT ![s] = @ + 1]
            ELSE UNCHANGED <<pc, i>>
         /\ UNCHANGED <<nodes, edges, edgeKeys, addEdgeCalls>>
    ELSE /\ lastIndex' = [lastIndex EXCEPT ![s] = m.last]
         /\ UNCHANGED <<pc, i, segIdx>>
         /\ IF IsDynamic(m)
            THEN Record(s, DYNAMIC_CALL, "dynamic", "calls-dynamic",
                        addEdge(edges[s], edgeKeys[s], currentScope[s], DYNAMIC_CALL,
                                "calls-dynamic", lineNo(s)))
            ELSE StaticCall(s, normalizeLabel(m.group2))

\* One callPattern.exec inside processStatementBlock and what follows it.
MatchCall(s) ==
    /\ pc[s] = "stmt"
    /\ Matched(s, callPatternExec(toUpperCase(segs[s][segIdx[s] + 1]), lastIndex[s]))
    /\ UNCHANGED <<source, lines, inBlockComment, currentScope, text, segs, result,
                   graph, dot, stmtText, stmts, upserts, extVars>>

\* The end of the line loop: the nodes are sorted and the graph is returned.
Finish(s) ==
    /\ pc[s] = "loop"
    /\ i[s] = Len(lines[s])
    /\ pc' = [pc EXCEPT ![s] = "done"]
    /\ result' = [result EXCEPT ![s] = [nodes |-> sortNodes(nodes[s]), edges |-> edges[s]]]
    /\ UNCHANGED <<source, lines, i, inBlockComment, currentScope, nodes, edges,
                   edgeKeys, text, segs, segIdx, lastIndex, addEdgeCalls, graph, dot,
                   stmtText, stmts, upserts, extVars>>

Next == \E s \in DOMAIN pc : ScanLine(s) \/ MatchCall(s) \/ Finish(s)

\* toDot from its call to its return: the graph is read, the text is built.
Render ==
    /\ ~dot.returned
    /\ dot' = [returned |-> TRUE, out |-> toDot(graph)]
    /\ UNCHANGED <<graph, pc, source, lines, i, inBlockComment, currentScope, nodes, edges,
                   edgeKeys, text, segs, segIdx, lastIndex, addEdgeCalls, result,
                   stmtText, stmts, upserts, extVars>>

NextDot == Render

\* A call of splitStatements with the text stmtText; the text of the call
\* after it is one of the follow-up texts.
SplitCall ==
    /\ stmts.calls < MaxSplitCalls
    /\ stmts' = [calls |-> stmts.calls + 1, before |-> stmts.arg, arg |-> stmtText,
                 out |-> splitStatements(stmtText)]
    /\ stmtText' \in (IF stmts.calls + 1 < MaxSplitCalls THEN FollowTexts ELSE {stmtText})
    /\ UNCHANGED <<graph, dot, pc, source, lines, i, inBlockComment, currentScope, nodes,
                   edges, edgeKeys, text, segs, segIdx, lastIndex, addEdgeCalls, result,
                   upserts, extVars>>

NextStatements == SplitCall

\* A call of upsertNode on the map, with the label equal to the id as at
\* every call site of the parser.
Upsert ==
    /\ Len(upserts.applied) < MaxUpserts
    /\ \E id \in UpsertIds, line \in 1..MaxUpsertLine, kind \in UpsertKinds :
           upserts' = [nodes |-> upsertNode(upserts.nodes, id, id, line, kind),
                       applied |-> Append(upserts.applied,
                                          [id |-> id, line |-> line, kind |-> kind])]
    /\ UNCHANGED <<graph, dot, stmtText, stmts, pc, source, lines, i, inBlockComment,
                   currentScope, nodes, edges, edgeKeys, text, segs, segIdx, lastIndex,
                   addEdgeCalls, result, extVars>>

NextUpsert == Upsert

\* parseRexxControlFlow is called with the text t: invocation 1 is at line 10.
ParseCalled(t) ==
    /\ pc' = [s \in {1} |-> "loop"]
    /\ source' = [s \in {1} |-> t]
    /\ lines' = [s \in {1} |-> SplitLines(t)]
    /\ i' = [s \in {1} |-> 0]
    /\ inBlockComment' = [s \in {1} |-> FALSE]
    /\ currentScope' = [s \in {1} |-> MAIN]
    /\ nodes' = [s \in {1} |-> upsertNode(<<>>, MAIN, MAIN, 1, "entry")]
    /\ edges' = [s \in {1} |-> <<>>]
    /\ edgeKeys' = [s \in {1} |-> {}]
    /\ text' = [s \in {1} |-> <<>>]
    /\ segs' = [s \in {1} |-> <<>>]
    /\ segIdx' = [s \in {1} |-> 0]
    /\ lastIndex' = [s \in {1} |-> 0]
    /\ addEdgeCalls' = [s \in {1} |-> <<>>]
    /\ result' = [s \in {1} |-> NoResult]

\* No handler of the extension is running: JavaScript runs one at a time.
Idle == rendering = NoDoc

\* renderForDocument(doc) up to the call of parseRexxControlFlow; t is
\* doc.getText().
renderForDocument(doc, t) ==
    /\ rendering' = doc
    /\ ParseCalled(t)
    /\ UNCHANGED <<graphPanel, graphDocumentUri, panels, created, pending, editor>>

\* The handler returns without a call of renderForDocument.
Ignored == UNCHANGED <<scanVars, graphPanel, graphDocumentUri, panels, created, rendering,
                       pending, editor>>

\* The rest of renderForDocument with a new panel at every call.
PresentNewPanel ==
    /\ rendering # NoDoc
    /\ pc = [s \in {1} |-> "done"]
    /\ graphPanel' = created + 1
    /\ created' = created + 1
    /\ panels' = [p \in DOMAIN panels \cup {graphPanel'} |->
                     IF p = graphPanel'
                     THEN [title |-> title(rendering),
                           html |-> renderGraphHtml(result[1], rendering.fileName)]
                     ELSE panels[p]]
    /\ graphDocumentUri' = rendering.uri
    /\ rendering' = NoDoc
    /\ UNCHANGED <<scanVars, docText, pending, editor, events, lastEvent,
                   graph, dot, stmtText, stmts, upserts>>

\* renderForDocument from the return of parseRexxControlFlow on: a panel is
\* created if there is none, and URI, title and html are set.
Present ==
    /\ rendering # NoDoc
    /\ pc = [s \in {1} |-> "done"]
    /\ graphPanel' = (IF graphPanel = 0 THEN created + 1 ELSE graphPanel)
    /\ created' = (IF graphPanel = 0 THEN created + 1 ELSE created)
    /\ panels' = [p \in DOMAIN panels \cup {graphPanel'} |->
                     IF p = graphPanel'
                     THEN [title |-> title(rendering),
                           html |-> renderGraphHtml(result[1], rendering.fileName)]
                     ELSE panels[p]]
    /\ graphDocumentUri' = rendering.uri
    /\ rendering' = NoDoc
    /\ UNCHANGED <<scanVars, docText, pending, editor, events, lastEvent,
                   graph, dot, stmtText, stmts, upserts>>

\* The command rexxFlow.showControlGraph; doc is the document of the active
\* editor, NoDoc without an active editor.
show ==
    /\ Idle /\ events < MaxEvents
    /\ \E doc \in Docs \cup {NoDoc} :
           /\ lastEvent' = [kind |-> "show", uri |-> doc.uri, msg |-> NoMessage]
           /\ IF doc = NoDoc \/ ~isSupported(doc)
              THEN Ignored
              ELSE renderForDocument(doc, docText[doc.uri])
    /\ events' = events + 1
    /\ UNCHANGED <<docText, graph, dot, stmtText, stmts, upserts>>

\* onDocumentChange that renders for every supported document that changes.
onDocumentChangeAnyDocument ==
    /\ Idle /\ events < MaxEvents
    /\ \E doc \in Docs, t \in DocTexts :
           /\ docText' = [docText EXCEPT ![doc.uri] = t]
           /\ lastEvent' = [kind |-> "change", uri |-> doc.uri, msg |-> NoMessage]
           /\ IF graphPanel = 0 \/ graphDocumentUri = Null
              THEN Ignored
              ELSE IF ~isSupported(doc)
              THEN Ignored
              ELSE renderForDocument(doc, t)
    /\ events' = events + 1
    /\ UNCHANGED <<graph, dot, stmtText, stmts, upserts>>

\* A change of a document and the call of onDocumentChange for it.
onDocumentChange ==
    /\ Idle /\ events < MaxEvents
    /\ \E doc \in Docs, t \in DocTexts :
           /\ docText' = [docText EXCEPT ![doc.uri] = t]
           /\ lastEvent' = [kind |-> "change", uri |-> doc.uri, msg |-> NoMessage]
           /\ IF graphPanel = 0 \/ graphDocumentUri = Null
              THEN Ignored
              ELSE IF doc.uri # graphDocumentUri
              THEN Ignored
              ELSE renderForDocument(doc, t)
    /\ events' = events + 1
    /\ UNCHANGED <<graph, dot, stmtText, stmts, upserts>>

\* A panel is closed and its onDidDispose callback runs.
onDidDispose ==
    /\ Idle /\ events < MaxEvents
    /\ \E p \in DOMAIN panels :
           panels' = [q \in DOMAIN panels \ {p} |-> panels[q]]
    /\ graphPanel' = 0
    /\ graphDocumentUri' = Null
    /\ lastEvent' = [kind |-> "dispose", uri |-> Null, msg |-> NoMessage]
    /\ events' = events + 1
    /\ UNCHANGED <<scanVars, created, docText, rendering, pending, editor,
                   graph, dot, stmtText, stmts, upserts>>

\* onDidReceiveMessage up to the first await: a message of a panel, also
\* one that was under way when the panel was closed.
onDidReceiveMessage ==
    /\ Idle /\ events < MaxEvents
    /\ created > 0
    /\ \E msg \in Messages :
           /\ lastEvent' = [kind |-> "message", uri |-> Null, msg |-> msg]
           /\ IF msg = NoMessage \/ graphDocumentUri = Null
              THEN pending' = pending
              ELSE IF msg.type = "revealLine"
              THEN pending' = Append(pending, [line |-> revealedLine(msg.line),
                                               targetUri |-> graphDocumentUri,
                                               stage |-> "open"])
              ELSE pending' = pending
    /\ events' = events + 1
    /\ UNCHANGED <<scanVars, graphPanel, graphDocumentUri, panels, created, docText,
                   rendering, editor, graph, dot, stmtText, stmts, upserts>>

\* openTextDocument has resolved: the handler goes on to showTextDocument.
Opened ==
    /\ Idle
    /\ \E k \in DOMAIN pending :
           /\ pending[k].stage = "open"
           /\ pending' = [pending EXCEPT ![k].stage = "show"]
    /\ UNCHANGED <<scanVars, graphPanel, graphDocumentUri, panels, created, docText,
                   rendering, editor, events, lastEvent,
                   graph, dot, stmtText, stmts, upserts>>

\* showTextDocument has resolved: the handler sets the selection at
\* Position(line - 1, 0), reveals it and ends.
Revealed ==
    /\ Idle
    /\ \E k \in DOMAIN pending :
           /\ pending[k].stage = "show"
           /\ editor' = [uri |-> pending[k].targetUri, line |-> pending[k].line - 1,
                         character |-> 0]
           /\ pending' = [n \in 1..(Len(pending) - 1) |->
                             IF n < k THEN pending[n] ELSE pending[n + 1]]
    /\ UNCHANGED <<scanVars, graphPanel, graphDocumentUri, panels, created, docText,
                   rendering, events, lastEvent,
                   graph, dot, stmtText, stmts, upserts>>

NextExtension ==
    \/ show \/ onDocumentChange \/ onDidDispose \/ onDidReceiveMessage
    \/ Opened \/ Revealed \/ Present
    \/ \E s \in DOMAIN pc : ScanLine(s) \/ MatchCall(s) \/ Finish(s)

\* The extension right after activate.
InitExtension ==
    /\ Activated
    /\ upserts = NoUpserts
    /\ stmtText = <<>> /\ stmts = NoStatements
    /\ graph = NoGraph /\ dot = NoDot
    /\ Scanning({}, <<>>)

Spec == Init /\ [][Next]_vars

SpecScope == InitScope /\ [][Next]_vars

SpecSplit == InitSplit /\ [][Next]_vars

SpecDynamic == InitDynamic /\ [][Next]_vars

SpecCall == InitCall /\ [][Next]_vars

SpecToggle == InitToggle /\ [][Next]_vars

SpecScans == InitScans /\ [][Next]_vars

SpecSort == InitSort /\ [][Next]_vars

SpecComment == InitComment /\ [][Next]_vars

SpecTotal == InitTotal /\ [][Next]_vars

SpecPlain == InitPlain /\ [][Next]_vars

SpecDot == InitDot /\ [][NextDot]_vars

SpecCase == InitCase /\ [][Next]_vars

SpecLineEnd == InitLineEnd /\ [][Next]_vars

SpecStatements == InitStatements /\ [][NextStatements]_vars

SpecUpsert == InitUpsert /\ [][NextUpsert]_vars

SpecExtension == InitExtension /\ [][NextExtension]_vars

SpecQuoted == InitQuoted /\ [][Next]_vars

SpecLiteral == InitLiteral /\ [][Next]_vars

\* ------------------------------------------------------------------------
\* Properties
\* ------------------------------------------------------------------------

Scans == DOMAIN pc

Done(s) == pc[s] = "done"

Triple(e) == <<e.from, e.to, e.type>>

\* The positions of the nodes of ns that have the id.
NodesWithId(ns, id) == {k \in DOMAIN ns : ns[k].id = id}

\* ns holds exactly one node MAIN, of kind entry, on line 1.
OneMainEntry(ns) ==
    /\ Cardinality(NodesWithId(ns, MAIN)) = 1
    /\ \A k \in NodesWithId(ns, MAIN) : ns[k].kind = "entry" /\ ns[k].line = 1

\* C1: at every point of a scan the node map holds exactly one node MAIN, its
\* kind is entry and its line is 1, whatever upserts the scan has made; the
\* same holds of the node list of the returned graph.
C1_MainEntry ==
    \A s \in Scans :
        /\ OneMainEntry(nodes[s])
        /\ Done(s) => OneMainEntry(result[s].nodes)

\* A finished scan that upserted MAIN again, as a call target on a later line
\* and as a label.
C1_Witness ==
    \E s \in Scans :
        /\ Done(s)
        /\ currentScope[s] = MAIN
        /\ \E k \in DOMAIN edges[s] : edges[s][k].to = MAIN /\ edges[s][k].line > 1

\* The elements of log at the positions ks, in order.
Pick(log, ks) ==
    [n \in 1..Cardinality(ks) |-> log[CHOOSE k \in ks : Cardinality({j \in ks : j < k}) = n - 1]]

\* The calls of a log whose triple no earlier call of the log has, in order.
FirstCalls(log) ==
    Pick(log, {k \in DOMAIN log : \A j \in 1..(k - 1) : Triple(log[j]) # Triple(log[k])})

\* C2: no two edges have the same (from, to, type), and the edge list is the
\* list of the first addEdge call of every triple: a repeated triple appends
\* nothing and the edge keeps the line of the first call.
C2_EdgeDedup ==
    \A s \in Scans :
        /\ \A j, k \in DOMAIN edges[s] :
               j # k => Triple(edges[s][j]) # Triple(edges[s][k])
        /\ edges[s] = FirstCalls(addEdgeCalls[s])

\* A scan that met the same triple again on a later line.
C2_Witness ==
    \E s \in Scans : \E j, k \in DOMAIN addEdgeCalls[s] :
        /\ j < k
        /\ Triple(addEdgeCalls[s][j]) = Triple(addEdgeCalls[s][k])
        /\ addEdgeCalls[s][j].line < addEdgeCalls[s][k].line

\* Every edge of es starts and ends at a node of ns.
EndpointsIn(es, ns) ==
    \A k \in DOMAIN es : HasNode(ns, es[k].from) /\ HasNode(ns, es[k].to)

\* C3: at every point of a scan and in the returned graph, both endpoints of
\* every edge are ids of nodes of the graph.
C3_NoDanglingEdge ==
    \A s \in Scans :
        /\ EndpointsIn(edges[s], nodes[s])
        /\ Done(s) => EndpointsIn(result[s].edges, result[s].nodes)

\* A returned graph with an edge between two nodes other than MAIN.
C3_Witness ==
    \E s \in Scans : \E k \in DOMAIN result[s].edges :
        /\ Done(s)
        /\ result[s].edges[k].from # MAIN
        /\ result[s].edges[k].to # result[s].edges[k].from

\* The lines as the loop sees them: comments stripped with the comment state
\* carried from line to line, white space collapsed.
RECURSIVE CleanFrom(_, _, _)
CleanNext(ls, k, stripped) ==
    <<collapse(stripped.line)>> \o CleanFrom(ls, k + 1, stripped.inBlockComment)

CleanFrom(ls, k, inBC) ==
    IF k > Len(ls) THEN <<>> ELSE CleanNext(ls, k, stripComments(ls[k], inBC))

CleanLines(ls) == CleanFrom(ls, 1, FALSE)

LabelOfLine(cl, k) == IF k = 0 THEN MAIN ELSE normalizeLabel(labelMatch(cl[k]).group1)

\* The scope declared for line n of the clean lines cl: the label of the last
\* label line among lines 1..n, MAIN when there is none.
ScopeAt(cl, n) == LabelOfLine(cl, MaxOr({k \in 1..n : labelMatch(cl[k]).ok}, 0))

\* How many lines a scan has taken up (the line of a running block included).
LinesSeen(s) == IF pc[s] = "stmt" THEN i[s] + 1 ELSE i[s]

ScopeFollowsLabels(s, cl) ==
    /\ currentScope[s] = ScopeAt(cl, LinesSeen(s))
    /\ \A k \in DOMAIN edges[s] : edges[s][k].from = ScopeAt(cl, edges[s][k].line)

\* C4: the current scope is the label of the last label line taken up so far
\* (MAIN before the first), and the from of every edge is the label of the
\* last label line at or before the edge's line (MAIN when there is none).
C4_ScopeOfEdges == \A s \in Scans : ScopeFollowsLabels(s, CleanLines(lines[s]))

\* A finished scan with a call from MAIN and, on a later line that is a
\* label line, a call from that label.
C4_Witness ==
    \E s \in Scans : \E j, k \in DOMAIN edges[s] :
        /\ Done(s)
        /\ edges[s][j].from = MAIN
        /\ edges[s][k].from # MAIN
        /\ edges[s][k].line > edges[s][j].line
        /\ labelMatch(CleanLines(lines[s])[edges[s][k].line]).ok

\* The quote that is open after the first k characters of t, read character
\* by character.
RECURSIVE OpenQuote(_, _)
OpenAfter(t, k, before) ==
    IF before = "none"
    THEN IF t[k] \in {"'", "\""} THEN t[k] ELSE "none"
    ELSE IF t[k] = before THEN "none" ELSE before

OpenQuote(t, k) == IF k = 0 THEN "none" ELSE OpenAfter(t, k, OpenQuote(t, k - 1))

\* The positions of the semicolons of t outside every literal.
Separators(t) == {k \in DOMAIN t : t[k] = ";" /\ OpenQuote(t, k - 1) = "none"}

\* The texts between the cuts, collapsed, the empty ones left out.
PiecesAt(t, cuts) ==
    SelectSeq([n \in 1..(Cardinality(cuts) + 1) |->
                  collapse(Slice(t, MaxOr({c \in cuts : Cardinality({d \in cuts : d <= c}) = n - 1}, 0) + 1,
                                    MinOr({c \in cuts : Cardinality({d \in cuts : d < c}) = n - 1}, Len(t) + 1) - 1))],
              LAMBDA piece : piece # <<>>)

\* C5: the segments of a statement block are the texts between the
\* semicolons that lie outside every literal: no semicolon between a quote
\* and the next same quote splits, so every segment but the last ends outside
\* a literal.
C5_QuoteAwareSplit ==
    \A s \in Scans :
        pc[s] = "stmt" =>
            /\ segs[s] = PiecesAt(text[s], Separators(text[s]))
            /\ \A n \in 1..(Len(segs[s]) - 1) : OpenQuote(segs[s][n], Len(segs[s][n])) = "none"

\* A finished scan of a line with a call, a literal that holds a semicolon,
\* and a call after it: the literal is inside one segment and both calls are
\* in the graph.
C5_Witness ==
    \E s \in Scans :
        /\ Done(s)
        /\ \E k \in DOMAIN text[s] : text[s][k] = ";" /\ OpenQuote(text[s], k - 1) # "none"
        /\ \E n \in DOMAIN segs[s] : \E k \in DOMAIN segs[s][n] :
               /\ segs[s][n][k] = ";"
               /\ OpenQuote(segs[s][n], Len(segs[s][n])) = "none"
        /\ Len(edges[s]) = 2
        /\ edges[s][1].to = <<"A">>
        /\ edges[s][2].to = <<"B">>

\* ------------------------------------------------------------------------
\* Call sites, read off the text
\* ------------------------------------------------------------------------

\* The word w stands at position p of u as a whole word.
WholeWordAt(u, p, w) ==
    /\ HasAt(u, p, w)
    /\ p = 1 \/ ~IsWord(u[p - 1])
    /\ p + Len(w) > Len(u) \/ ~IsWord(u[p + Len(w)])

\* The keyword CALL at p is followed at q (after white space) by the word
\* VALUE or by an opening parenthesis.
DynamicTail(u, q) == WholeWordAt(u, q, WordVALUE) \/ (q <= Len(u) /\ u[q] = "(")

DynamicSiteAt(u, p) == WholeWordAt(u, p, WordCALL) /\ DynamicTail(u, SkipSpaces(u, p + 4))

\* The keyword CALL at p is followed at q (after white space) by a literal
\* target identifier.
StaticTail(u, q) == ~DynamicTail(u, q) /\ q <= Len(u) /\ IsTargetChar(u[q])

StaticSiteAt(u, p) == WholeWordAt(u, p, WordCALL) /\ StaticTail(u, SkipSpaces(u, p + 4))

TargetFrom(u, q) == Slice(u, q, TargetRunEnd(u, q))

\* The target identifier of the static site at p.
StaticTarget(u, p) == TargetFrom(u, SkipSpaces(u, p + 4))

\* Position p lies inside the target identifier of the static site at p0.
InTargetOf(u, p0, p) ==
    /\ StaticSiteAt(u, p0)
    /\ SkipSpaces(u, p0 + 4) <= p
    /\ p <= TargetRunEnd(u, SkipSpaces(u, p0 + 4))

\* The keyword at p is examined: it is not part of the target identifier of
\* an examined keyword in front of it.
RECURSIVE Examined(_, _)
Examined(u, p) ==
    /\ WholeWordAt(u, p, WordCALL)
    /\ \A p0 \in 1..(p - 1) : ~(InTargetOf(u, p0, p) /\ Examined(u, p0))

\* The text of line k that the statement pipeline gets: the text after the
\* colon on a label line, the whole line otherwise.
BlockTextOf(ln, m) == IF m.ok THEN collapse(m.group2) ELSE ln

BlockText(ln) == BlockTextOf(ln, labelMatch(ln))

\* The uppercased segments of line k of the clean lines cl.
UpperSegments(ss) == [n \in DOMAIN ss |-> toUpperCase(ss[n])]

SegmentsOf(cl, k) == UpperSegments(splitStatements(BlockText(cl[k])))

HasEdge(es, from, to, type) == \E k \in DOMAIN es : Triple(es[k]) = <<from, to, type>>

\* Every calls-dynamic edge ends at DYNAMIC_CALL, and at most one node has the
\* id DYNAMIC_CALL or the kind dynamic.
OneDynamicNode(s) ==
    /\ \A k \in DOMAIN edges[s] :
           edges[s][k].type = "calls-dynamic" => edges[s][k].to = DYNAMIC_CALL
    /\ Cardinality(NodesWithId(nodes[s], DYNAMIC_CALL)) <= 1
    /\ Cardinality({k \in DOMAIN nodes[s] : nodes[s][k].kind = "dynamic"}) <= 1
    /\ \A k \in DOMAIN nodes[s] : nodes[s][k].kind = "dynamic" => nodes[s][k].id = DYNAMIC_CALL

\* Every dynamic site of segment u of a line with the scope has its edge.
DynamicEdgesAll(es, scope, u) ==
    \A p \in DOMAIN u :
        DynamicSiteAt(u, p) => HasEdge(es, scope, DYNAMIC_CALL, "calls-dynamic")

DynamicEdgesExamined(es, scope, u) ==
    \A p \in DOMAIN u :
        (DynamicSiteAt(u, p) /\ Examined(u, p)) =>
            HasEdge(es, scope, DYNAMIC_CALL, "calls-dynamic")

DynamicAllIn(es, cl) ==
    \A k \in DOMAIN cl : \A n \in DOMAIN SegmentsOf(cl, k) :
        DynamicEdgesAll(es, ScopeAt(cl, k), SegmentsOf(cl, k)[n])

DynamicExaminedIn(es, cl) ==
    \A k \in DOMAIN cl : \A n \in DOMAIN SegmentsOf(cl, k) :
        DynamicEdgesExamined(es, ScopeAt(cl, k), SegmentsOf(cl, k)[n])

\* C6 as stated: every keyword CALL followed by the word VALUE or by an
\* opening parenthesis has the edge (scope, DYNAMIC_CALL, calls-dynamic) in
\* the returned graph, every calls-dynamic edge ends at DYNAMIC_CALL and
\* there is one dynamic node at most.
C6_Original ==
    \A s \in Scans :
        /\ OneDynamicNode(s)
        /\ Done(s) => DynamicAllIn(result[s].edges, CleanLines(lines[s]))

\* C6, amended: as C6_Original for every keyword CALL that is not itself part
\* of the target identifier of the CALL in front of it.
C6_DynamicCalls ==
    \A s \in Scans :
        /\ OneDynamicNode(s)
        /\ Done(s) => DynamicExaminedIn(result[s].edges, CleanLines(lines[s]))

\* A returned graph with calls-dynamic edges from two scopes, one made by
\* CALL VALUE and one by CALL (.
C6_Witness ==
    \E s \in Scans : \E j, k \in DOMAIN result[s].edges :
        /\ Done(s)
        /\ result[s].edges[j].type = "calls-dynamic"
        /\ result[s].edges[k].type = "calls-dynamic"
        /\ result[s].edges[j].from = MAIN
        /\ result[s].edges[k].from = <<"A">>
        /\ \E p \in DOMAIN SegmentsOf(CleanLines(lines[s]), 1)[1] :
               WholeWordAt(SegmentsOf(CleanLines(lines[s]), 1)[1], p, WordVALUE)
        /\ Len(addEdgeCalls[s]) = 2

\* The kind the data model gives a node id.
KindOfId(id) ==
    IF id = MAIN THEN "entry" ELSE IF id = DYNAMIC_CALL THEN "dynamic" ELSE "function"

\* C7: in the returned graph DYNAMIC_CALL has kind dynamic, MAIN is the only
\* node of kind entry and every other node has kind function.
C7_KindsById ==
    \A s \in Scans :
        Done(s) => \A k \in DOMAIN result[s].nodes :
                       result[s].nodes[k].kind = KindOfId(result[s].nodes[k].id)

\* Every static site of segment u with a target other than ON and OFF has
\* its edge.
StaticEdgesAll(es, scope, u) ==
    \A p \in DOMAIN u :
        (StaticSiteAt(u, p) /\ StaticTarget(u, p) \notin {WordON, WordOFF}) =>
            HasEdge(es, scope, StaticTarget(u, p), "calls")

StaticEdgesExamined(es, scope, u) ==
    \A p \in DOMAIN u :
        (StaticSiteAt(u, p) /\ Examined(u, p) /\ StaticTarget(u, p) \notin {WordON, WordOFF}) =>
            HasEdge(es, scope, StaticTarget(u, p), "calls")

StaticAllIn(es, cl) ==
    \A k \in DOMAIN cl : \A n \in DOMAIN SegmentsOf(cl, k) :
        StaticEdgesAll(es, ScopeAt(cl, k), SegmentsOf(cl, k)[n])

StaticExaminedIn(es, cl) ==
    \A k \in DOMAIN cl : \A n \in DOMAIN SegmentsOf(cl, k) :
        StaticEdgesExamined(es, ScopeAt(cl, k), SegmentsOf(cl, k)[n])

\* C8 as stated: every keyword CALL of a statement that is followed by a
\* literal target identifier other than ON and OFF has the edge
\* (scope, TARGET, calls) in the returned graph.
C8_Original == \A s \in Scans : Done(s) => StaticAllIn(result[s].edges, CleanLines(lines[s]))

\* C8, amended: as C8_Original for every keyword CALL that is not itself part
\* of the target identifier of the CALL in front of it.
C8_EveryCallSite ==
    \A s \in Scans : Done(s) => StaticExaminedIn(result[s].edges, CleanLines(lines[s]))

\* A returned graph for one statement with two static sites, the first of
\* them not at the start of the statement, under a scope other than MAIN.
C8_Witness ==
    \E s \in Scans :
        /\ Done(s)
        /\ Len(segs[s]) = 1
        /\ ~WholeWordAt(toUpperCase(segs[s][1]), 1, WordCALL)
        /\ Cardinality({p \in DOMAIN segs[s][1] :
                          StaticSiteAt(toUpperCase(segs[s][1]), p)
                          /\ Examined(toUpperCase(segs[s][1]), p)}) = 2
        /\ Len(result[s].edges) = 2
        /\ result[s].edges[1].from = <<"W">>

\* The ids of the labels declared on the first n clean lines.
LabelsUpTo(cl, n) ==
    {normalizeLabel(labelMatch(cl[k]).group1) : k \in {j \in 1..n : labelMatch(cl[j]).ok}}

TogglesSkipped(s, declared) ==
    /\ \A k \in DOMAIN addEdgeCalls[s] : addEdgeCalls[s][k].to \notin {WordON, WordOFF}
    /\ \A k \in DOMAIN edges[s] : edges[s][k].to \notin {WordON, WordOFF}
    /\ \A k \in DOMAIN nodes[s] :
           nodes[s][k].id \in {WordON, WordOFF} => nodes[s][k].id \in declared

\* C9: addEdge is never called for a target ON or OFF, no edge ends at ON or
\* OFF, and a node ON or OFF exists only when a label of that name has been
\* declared on a line taken up so far.
C9_TogglesAreNoCalls ==
    \A s \in Scans : TogglesSkipped(s, LabelsUpTo(CleanLines(lines[s]), LinesSeen(s)))

\* A finished scan of a text with CALL ON and CALL OFF sites and a label ON:
\* the node ON is there, by the label alone, and nothing else.
C9_Witness ==
    \E s \in Scans :
        /\ Done(s)
        /\ HasNode(result[s].nodes, WordON)
        /\ ~HasNode(result[s].nodes, WordOFF)
        /\ result[s].edges = <<>>
        /\ \E k \in DOMAIN lines[s] : \E n \in DOMAIN SegmentsOf(CleanLines(lines[s]), k) :
               \E p, q \in DOMAIN SegmentsOf(CleanLines(lines[s]), k)[n] :
                   /\ StaticSiteAt(SegmentsOf(CleanLines(lines[s]), k)[n], p)
                   /\ StaticTarget(SegmentsOf(CleanLines(lines[s]), k)[n], p) = WordON
                   /\ StaticSiteAt(SegmentsOf(CleanLines(lines[s]), k)[n], q)
                   /\ StaticTarget(SegmentsOf(CleanLines(lines[s]), k)[n], q) = WordOFF

\* Everything one invocation holds.
Local(s) ==
    <<pc[s], source[s], lines[s], i[s], inBlockComment[s], currentScope[s], nodes[s],
      edges[s], edgeKeys[s], text[s], segs[s], segIdx[s], lastIndex[s],
      addEdgeCalls[s], result[s]>>

\* How far an invocation has got.
Position(s) == <<pc[s], i[s], segIdx[s], lastIndex[s]>>

\* Two invocations with the same text that have got equally far hold the
\* same values, and when both have returned, the same graph.
SameTextSameRun ==
    \A s, t \in Scans :
        (source[s] = source[t] /\ Position(s) = Position(t)) =>
            /\ Local(s) = Local(t)
            /\ Done(s) => result[s] = result[t]

\* A step changes the values of one invocation at most.
OneScanSteps == \E s \in Scans : \A t \in Scans \ {s} : Local(t)' = Local(t)

\* C10: two scans of the same text, in any interleaving with each other and
\* with a scan of any other text, hold equal values at equal positions and
\* return equal graphs, and no step of a scan changes what another scan holds.
C10_IndependentScans == [](SameTextSameRun) /\ [][OneScanSteps]_vars

\* Two scans of the same text have returned a graph with an edge while a
\* scan of another text is in the middle of a statement.
C10_Witness ==
    /\ Done(1) /\ Done(2)
    /\ source[1] = source[2]
    /\ result[1] = result[2]
    /\ Len(result[1].edges) >= 1
    /\ source[3] # source[1]
    /\ pc[3] = "stmt"
    /\ Len(edges[3]) >= 1

\* The order of the characters of an id by code unit.
CodeUnitOrder ==
    <<"!", "#", "$", ".", "0", "1", "2", "3", "4", "5", "6", "7", "8", "9", "?", "@">>
    \o UpperLetters \o <<"_">>

CodeUnit(c) == CHOOSE k \in DOMAIN CodeUnitOrder : CodeUnitOrder[k] = c

\* a < b for two ids compared code unit by code unit.
RECURSIVE CodeUnitLess(_, _)
CodeUnitLess(a, b) ==
    IF b = <<>> THEN FALSE
    ELSE IF a = <<>> THEN TRUE
    ELSE IF a[1] # b[1] THEN CodeUnit(a[1]) < CodeUnit(b[1])
    ELSE CodeUnitLess(Tail(a), Tail(b))

\* The same nodes, each once.
SameNodes(ns, ms) ==
    /\ Len(ns) = Len(ms)
    /\ {ns[k] : k \in DOMAIN ns} = {ms[k] : k \in DOMAIN ms}

MainFirst(ns) == ns # <<>> /\ ns[1].id = MAIN /\ \A k \in 2..Len(ns) : ns[k].id # MAIN

\* C11 as stated, ids ascending code unit by code unit: MAIN is first, the
\* other nodes follow by ascending line and, on one line, by ascending id.
C11_Original ==
    \A s \in Scans :
        Done(s) =>
            /\ MainFirst(result[s].nodes)
            /\ \A k \in 2..(Len(result[s].nodes) - 1) :
                   \/ result[s].nodes[k].line < result[s].nodes[k + 1].line
                   \/ /\ result[s].nodes[k].line = result[s].nodes[k + 1].line
                      /\ CodeUnitLess(result[s].nodes[k].id, result[s].nodes[k + 1].id)

\* C11, amended: the returned nodes are the nodes of the map; MAIN is first,
\* the other nodes follow by ascending line and, on one line, by ascending id
\* in the collation order of localeCompare.
C11_NodeOrder ==
    \A s \in Scans :
        Done(s) =>
            /\ SameNodes(result[s].nodes, nodes[s])
            /\ MainFirst(result[s].nodes)
            /\ \A k \in 2..(Len(result[s].nodes) - 1) :
                   \/ result[s].nodes[k].line < result[s].nodes[k + 1].line
                   \/ /\ result[s].nodes[k].line = result[s].nodes[k + 1].line
                      /\ localeCompare(result[s].nodes[k].id, result[s].nodes[k + 1].id) < 0

\* A returned graph whose nodes were found in another order than the one
\* returned: three nodes of one line, found as B, A1, then the label A?.
C11_Witness ==
    \E s \in Scans :
        /\ Done(s)
        /\ Len(nodes[s]) >= 4
        /\ nodes[s] # result[s].nodes
        /\ \E k \in 2..(Len(result[s].nodes) - 1) :
               result[s].nodes[k].line = result[s].nodes[k + 1].line
        /\ \E k \in 2..(Len(result[s].nodes) - 1) :
               result[s].nodes[k].line < result[s].nodes[k + 1].line

\* The lines on which the id was observed so far: as the label of one of the
\* first n clean lines, or as the target of a recorded call.
ObservedOn(cl, n, log, id) ==
    {k \in 1..n : labelMatch(cl[k]).ok /\ LabelOfLine(cl, k) = id}
        \cup {log[k].line : k \in {j \in DOMAIN log : log[j].to = id}}

UniqueIds(ns) == \A j, k \in DOMAIN ns : ns[j].id = ns[k].id => j = k

FirstObserved(ns, cl, n, log) ==
    \A k \in DOMAIN ns :
        ns[k].id # MAIN =>
            /\ ObservedOn(cl, n, log, ns[k].id) # {}
            /\ ns[k].line = MinOr(ObservedOn(cl, n, log, ns[k].id), 0)

\* C12: node ids are unique, in the map at every step and in the returned
\* list, and the line of every node other than MAIN is the smallest line on
\* which its id was observed as a label or as a call target.
C12_FirstObservation ==
    \A s \in Scans :
        /\ UniqueIds(nodes[s])
        /\ FirstObserved(nodes[s], CleanLines(lines[s]), LinesSeen(s), addEdgeCalls[s])
        /\ Done(s) =>
               /\ UniqueIds(result[s].nodes)
               /\ FirstObserved(result[s].nodes, CleanLines(lines[s]), Len(lines[s]),
                                addEdgeCalls[s])

\* A returned graph with the node A of line 1, called on line 1 and declared
\* as a label on a later line.
C12_Witness ==
    \E s \in Scans : \E k \in DOMAIN result[s].nodes :
        /\ Done(s)
        /\ result[s].nodes[k].id = <<"A">>
        /\ result[s].nodes[k].line = 1
        /\ \E c \in DOMAIN addEdgeCalls[s] :
               addEdgeCalls[s][c].to = <<"A">> /\ addEdgeCalls[s][c].line = 1
        /\ \E n \in 2..Len(lines[s]) :
               /\ labelMatch(CleanLines(lines[s])[n]).ok
               /\ LabelOfLine(CleanLines(lines[s]), n) = <<"A">>

\* How much a scan has left to do: the lines not yet taken up; 1 at the head
\* of the line loop and 0 inside a block; the segments of the block not yet
\* finished; the characters of the segment behind lastIndex.
Rank(s) ==
    IF pc[s] = "done" THEN <<0, 0, 0, 0>>
    ELSE IF pc[s] = "loop" THEN <<1 + Len(lines[s]) - i[s], 1, 0, 0>>
    ELSE <<1 + Len(lines[s]) - i[s], 0, Len(segs[s]) - segIdx[s],
           Len(segs[s][segIdx[s] + 1]) - lastIndex[s]>>

\* a comes before b in the order of the ranks, component by component.
RankLess(a, b) ==
    \E k \in 1..4 : a[k] < b[k] /\ \A j \in 1..(k - 1) : a[j] = b[j]

\* Every step of a scan brings it nearer to its end.
ScansAdvance ==
    \A s \in Scans : Local(s)' # Local(s) => RankLess(Rank(s)', Rank(s))

\* What a scan holds agrees with the comments of its text: the flag is the
\* comment state at the end of the last line taken up, and the text of a
\* running block is made of the characters of its line outside the comments.
FollowsComments(s, spans) ==
    /\ pc[s] = "loop" => inBlockComment[s] = OpenAtEnd(source[s], spans, i[s])
    /\ pc[s] = "stmt" =>
           /\ inBlockComment[s] = OpenAtEnd(source[s], spans, i[s] + 1)
           /\ text[s] = BlockText(collapse(KeptLine(source[s], spans, i[s] + 1)))

\* Nothing comes from a line behind the opening marker of a comment that is
\* never closed.
NothingBehindOpen(s, spans) ==
    \A c \in spans :
        c.close > Len(source[s]) =>
            /\ \A k \in DOMAIN nodes[s] : nodes[s][k].line <= LineOf(source[s], c.open)
            /\ \A k \in DOMAIN edges[s] : edges[s][k].line <= LineOf(source[s], c.open)

CommentsDropped ==
    /\ \A s \in Scans :
           /\ FollowsComments(s, CommentSpans(source[s], 1))
           /\ NothingBehindOpen(s, CommentSpans(source[s], 1))
    /\ (Done(1) /\ Done(2)) => result[1] = result[2]

\* C13: the comment flag is carried from line to line; the characters of a
\* line outside the comments are kept; the graph of a text is the graph of
\* the text with the inside of every comment taken out; nothing comes from a
\* line behind a comment that is never closed; and with or without an open
\* comment every step of a scan brings it nearer to its end.
C13_BlockComments == [](CommentsDropped) /\ [][ScansAdvance]_vars

\* A returned graph for a text with a comment that runs over a line end, with
\* a call inside it that is dropped, a call in front of it and a label
\* behind it that are kept.
C13_Witness ==
    /\ Done(1) /\ Done(2)
    /\ source[1] # source[2]
    /\ \E c \in CommentSpans(source[1], 1) :
           /\ c.close <= Len(source[1])
           /\ LineOf(source[1], c.open) < LineOf(source[1], c.close)
           /\ \E p \in (c.open + 2)..(c.close - 1) :
                  StaticSiteAt(toUpperCase(source[1]), p)
    /\ HasNode(result[1].nodes, <<"A">>)
    /\ HasNode(result[1].nodes, <<"B">>)
    /\ ~HasNode(result[1].nodes, <<"C">>)

\* A returned graph for a text with a comment that is never closed and a
\* call on a line behind its opening marker.
C13_WitnessOpen ==
    /\ Done(1) /\ Done(2)
    /\ \E c \in CommentSpans(source[1], 1) :
           /\ c.close > Len(source[1])
           /\ \E p \in (c.open + 2)..Len(source[1]) :
                  /\ StaticSiteAt(toUpperCase(source[1]), p)
                  /\ LineOf(source[1], p) > LineOf(source[1], c.open)

\* A scan is at a place of the code, and what the code reads next is there:
\* the next line at the head of the line loop, the current segment and a
\* lastIndex inside it in a block, a graph with its entry node once returned.
NoErrorState(s) ==
    /\ pc[s] \in {"loop", "stmt", "done"}
    /\ Len(lines[s]) >= 1
    /\ i[s] \in 0..Len(lines[s])
    /\ pc[s] = "stmt" =>
           /\ i[s] < Len(lines[s])
           /\ segIdx[s] \in 0..(Len(segs[s]) - 1)
           /\ lastIndex[s] \in 0..Len(segs[s][segIdx[s] + 1])
    /\ pc[s] = "done" =>
           /\ i[s] = Len(lines[s])
           /\ result[s].nodes # <<>>
           /\ result[s].edges = edges[s]
    /\ pc[s] # "done" => result[s] = NoResult

\* exec after a match starts behind that match.
MatchAdvances ==
    \A s \in Scans :
        (pc[s] = "stmt" /\ pc[s]' = "stmt" /\ segIdx[s]' = segIdx[s] /\ Local(s)' # Local(s))
            => lastIndex[s]' > lastIndex[s]

\* C14: a scan is never in an error state, every step brings it nearer to its
\* end (so it returns after finitely many steps), and inside a statement each
\* match starts behind the one before.
C14_Total ==
    /\ [](\A s \in Scans : NoErrorState(s))
    /\ [][ScansAdvance /\ MatchAdvances]_vars

\* A returned graph for a text that ends inside a comment and has a literal
\* that is never closed, with an edge from the text in front of them.
C14_Witness ==
    \E s \in Scans :
        /\ Done(s)
        /\ inBlockComment[s]
        /\ OpenQuote(text[s], Len(text[s])) # "none"
        /\ Len(result[s].edges) >= 1

\* A call site in the uppercased segment u: the keyword with a dynamic tail,
\* or with a target identifier other than ON and OFF.
CallSiteIn(u) ==
    \E p \in DOMAIN u :
        \/ DynamicSiteAt(u, p)
        \/ StaticSiteAt(u, p) /\ StaticTarget(u, p) \notin {WordON, WordOFF}

\* No clean line is a label line and no segment of a line has a call site.
NothingRecognized(cl) ==
    \A k \in DOMAIN cl :
        /\ ~labelMatch(cl[k]).ok
        /\ \A n \in DOMAIN SegmentsOf(cl, k) : ~CallSiteIn(SegmentsOf(cl, k)[n])

OnlyMain == <<[id |-> MAIN, label |-> MAIN, line |-> 1, kind |-> "entry"]>>

\* The scan holds the node MAIN alone and no edge, and has returned, if it
\* has, the node list [MAIN, entry, line 1] and the empty edge list.
MainAlone(s) ==
    /\ nodes[s] = OnlyMain /\ edges[s] = <<>>
    /\ Done(s) => result[s] = [nodes |-> OnlyMain, edges |-> <<>>]

\* C15: for a text in which no label line and no call site is recognized,
\* the scan holds the node MAIN alone and no edge at every step, and returns
\* the node list [MAIN, entry, line 1] and the empty edge list.
C15_NothingRecognized ==
    \A s \in Scans : MainAlone(s) \/ ~NothingRecognized(CleanLines(lines[s]))

\* A returned graph for a text of several lines in which nothing is
\* recognized although the letters CALL stand in it.
C15_Witness ==
    \E s \in Scans :
        /\ Done(s)
        /\ NothingRecognized(CleanLines(lines[s]))
        /\ Len(lines[s]) >= 2
        /\ \E p \in DOMAIN source[s] : HasAt(toUpperCase(source[s]), p, WordCALL)
        /\ \E p \in DOMAIN source[s] : PairAt(source[s], p, "/", "*")
        /\ result[s] = [nodes |-> OnlyMain, edges |-> <<>>]

\* ------------------------------------------------------------------------
\* The text of toDot, read line by line and field by field
\* ------------------------------------------------------------------------

NumLines(out) == 1 + Cardinality({p \in DOMAIN out : out[p] = "\n"})

\* Line n of a text (1-based), without its line end.
TextLine(out, n) ==
    Slice(out, IF n = 1 THEN 1 ELSE LineEndOf(out, n - 1) + 1, LineEndOf(out, n) - 1)

\* The text v with every backslash written as two backslashes and every
\* quote as a backslash and a quote, character by character.
Escaped(v) ==
    Flatten([k \in DOMAIN v |->
               IF v[k] = Backslash THEN <<Backslash, Backslash>>
               ELSE IF v[k] = Quote THEN <<Backslash, Quote>>
               ELSE <<v[k]>>])

NodeLineOf(n) == DotIndent \o Escaped(n.id) \o DotLabel \o Escaped(n.label) \o DotEnd

EdgeLineOf(e) ==
    DotIndent \o Escaped(e.from) \o DotArrow \o Escaped(e.to)
        \o DotLabel \o Escaped(e.type) \o DotEnd

IsPlain(v) == \A k \in DOMAIN v : v[k] \notin {Backslash, Quote}

\* The text w stands somewhere in the line.
Contains(line, w) == \E p \in 1..(Len(line) + 1) : HasAt(line, p, w)

DotShape(g, out) ==
    /\ NumLines(out) = 3 + Len(g.nodes) + Len(g.edges)
    /\ TextLine(out, 1) = DotHeader
    /\ TextLine(out, 2) = DotRankdir
    /\ \A k \in DOMAIN g.nodes : TextLine(out, 2 + k) = NodeLineOf(g.nodes[k])
    /\ \A k \in DOMAIN g.edges :
           /\ TextLine(out, 2 + Len(g.nodes) + k) = EdgeLineOf(g.edges[k])
           /\ (IsPlain(g.edges[k].from) /\ IsPlain(g.edges[k].to)) =>
                  Contains(TextLine(out, 2 + Len(g.nodes) + k),
                           <<Quote>> \o g.edges[k].from \o DotArrow \o g.edges[k].to
                               \o <<Quote>>)
    /\ TextLine(out, 3 + Len(g.nodes) + Len(g.edges)) = DotClose

\* C16: the text returned by toDot is the header line, the rankdir line, one
\* declaration line per node in the order of the nodes, one per edge in the
\* order of the edges, and the closing line, 3 + |nodes| + |edges| lines in
\* all (for fields without line breaks); toDot leaves its argument as it is.
C16_DotShape ==
    /\ [](dot.returned => DotShape(graph, dot.out))
    /\ [][graph' = graph /\ (dot.returned => dot' = dot)]_vars

\* A returned text for a graph with a node and an edge.
C16_Witness ==
    /\ dot.returned
    /\ Len(graph.nodes) = 1
    /\ Len(graph.edges) = 1
    /\ NumLines(dot.out) = 5
    /\ IsPlain(graph.edges[1].from) /\ IsPlain(graph.edges[1].to)

\* The number of backslashes that stand in a row right in front of position
\* q of the line, not going back beyond position p.
BackslashesBefore(line, p, q) == q - 1 - MaxOr({r \in p..(q - 1) : line[r] # Backslash}, p - 1)

\* The position of the quote that closes the quoted field starting at p: the
\* first quote with an even number of backslashes in front of it.
FieldEnd(line, p) ==
    MinOr({q \in p..Len(line) :
             line[q] = Quote /\ BackslashesBefore(line, p, q) % 2 = 0}, Len(line) + 1)

\* The field without its escapes: of the backslashes of a row every other
\* one, beginning with the first, is taken out.
Unescaped(w) ==
    Chars(SelectSeq([k \in DOMAIN w |->
                       [ch |-> w[k],
                        keep |-> ~(w[k] = Backslash /\ BackslashesBefore(w, 1, k) % 2 = 0)]],
                    LAMBDA r : r.keep))

\* The quoted field that starts at p of the line holds the value v: it is v
\* escaped, it ends at e, and read back it gives v.
FieldHolds(line, p, e, v) ==
    /\ e <= Len(line)
    /\ Slice(line, p, e - 1) = Escaped(v)
    /\ Unescaped(Slice(line, p, e - 1)) = v

\* The line is the opening text, a quoted field with the value v, and the
\* text behind it; e is the end of the field.
FieldThen(line, p, e, v, behind) == FieldHolds(line, p, e, v) /\ HasAt(line, e, behind)

NodeFields(line, n, e1) ==
    /\ HasAt(line, 1, DotIndent)
    /\ FieldThen(line, 4, e1, n.id, DotLabel)
    /\ FieldThen(line, e1 + Len(DotLabel), FieldEnd(line, e1 + Len(DotLabel)), n.label, DotEnd)
    /\ FieldEnd(line, e1 + Len(DotLabel)) + Len(DotEnd) - 1 = Len(line)

EdgeTail(line, e, p, e3) ==
    /\ FieldThen(line, p, e3, e.type, DotEnd)
    /\ e3 + Len(DotEnd) - 1 = Len(line)

EdgeMiddle(line, e, p, e2) ==
    /\ FieldThen(line, p, e2, e.to, DotLabel)
    /\ EdgeTail(line, e, e2 + Len(DotLabel), FieldEnd(line, e2 + Len(DotLabel)))

EdgeFields(line, e, e1) ==
    /\ HasAt(line, 1, DotIndent)
    /\ FieldThen(line, 4, e1, e.from, DotArrow)
    /\ EdgeMiddle(line, e, e1 + Len(DotArrow), FieldEnd(line, e1 + Len(DotArrow)))

DotFields(g, out) ==
    /\ \A k \in DOMAIN g.nodes :
           NodeFields(TextLine(out, 2 + k), g.nodes[k], FieldEnd(TextLine(out, 2 + k), 4))
    /\ \A k \in DOMAIN g.edges :
           EdgeFields(TextLine(out, 2 + Len(g.nodes) + k), g.edges[k],
                      FieldEnd(TextLine(out, 2 + Len(g.nodes) + k), 4))

\* C17: every quoted field of the text of toDot (id and label of a node;
\* from, to and type of an edge) is its value with each backslash doubled
\* and each quote behind one backslash; no quote inside the field ends it
\* early, and the field read back gives the value.
C17_Escaping == dot.returned => DotFields(graph, dot.out)

\* A returned text for a graph with a node whose id ends in a backslash and
\* whose label begins with one, and an edge whose type holds a quote.
C17_Witness ==
    /\ dot.returned
    /\ Len(graph.nodes) = 1
    /\ Len(graph.edges) = 1
    /\ graph.nodes[1].id = <<"a", Quote, Backslash>>
    /\ graph.nodes[1].label = <<Backslash, Quote>>
    /\ ~IsPlain(graph.edges[1].type)

\* The text is its own trimmed form in capital letters: no small letter, no
\* white space at either end.
IsCanonical(id) ==
    /\ \A k \in DOMAIN id : id[k] \notin LowerSet
    /\ id # <<>> => ~IsSpace(id[1]) /\ ~IsSpace(id[Len(id)])

CanonicalGraph(ns, es) ==
    /\ \A k \in DOMAIN ns : IsCanonical(ns[k].id) /\ ns[k].label = ns[k].id
    /\ \A k \in DOMAIN es : IsCanonical(es[k].from) /\ IsCanonical(es[k].to)
    /\ UniqueIds(ns)

\* C18: every node id, node label and edge endpoint is its own trimmed form
\* in capital letters, label and id of a node are equal, ids are unique, and
\* a text returns the graph that the same text in capital letters returns
\* (labels, call targets and the keywords in any letter case).
C18_CaseInsensitive ==
    /\ \A s \in Scans :
           /\ CanonicalGraph(nodes[s], edges[s])
           /\ Done(s) => CanonicalGraph(result[s].nodes, result[s].edges)
    /\ (Done(1) /\ Done(2)) => result[1] = result[2]

\* Two returned graphs, of a text with foo:, Call Foo and CALL FOO and of the
\* same text in capital letters: the node FOO and the edge from FOO to FOO,
\* each once.
C18_Witness ==
    /\ Done(1) /\ Done(2)
    /\ source[1] # source[2]
    /\ \E p \in DOMAIN source[1] : HasAt(source[1], p, <<"f", "o", "o", ":">>)
    /\ \E p \in DOMAIN source[1] : HasAt(source[1], p, <<"C", "a", "l", "l", " ", "F", "o", "o">>)
    /\ \E p \in DOMAIN source[1] : HasAt(source[1], p, <<"C", "A", "L", "L", " ", "F", "O", "O">>)
    /\ Len(result[1].nodes) = 2
    /\ result[1].nodes[2].id = <<"F", "O", "O">>
    /\ Len(result[1].edges) = 1
    /\ Triple(result[1].edges[1]) = <<(<<"F", "O", "O">>), (<<"F", "O", "O">>), "calls">>

NoCarriageReturn(ns) == \A k \in DOMAIN ns : \A p \in DOMAIN ns[k].id : ns[k].id[p] # "\r"

\* C19: a text with \n line ends and the same text with \r\n line ends
\* return the same graph, line numbers included, and no node id holds a
\* carriage return.
C19_LineEndings ==
    /\ \A s \in Scans : NoCarriageReturn(nodes[s]) /\ NoCarriageReturn(result[s].nodes)
    /\ \A s \in Scans : Len(lines[s]) = NumLines(source[1])
    /\ (Done(1) /\ Done(2)) => result[1] = result[2]

\* Two returned graphs of a text of two lines, with a call on the first line
\* and a label on the second one, once with \n and once with \r\n.
C19_Witness ==
    /\ Done(1) /\ Done(2)
    /\ Len(source[2]) = Len(source[1]) + 1
    /\ Len(lines[2]) = 2
    /\ Len(result[2].nodes) = 3
    /\ result[2].nodes[2].line = 1
    /\ result[2].nodes[3].line = 2
    /\ Len(result[2].edges) = 1

\* The text has no white space at its ends, and its white space is single
\* blanks.
IsCollapsed(w) ==
    /\ w # <<>> => ~IsSpace(w[1]) /\ ~IsSpace(w[Len(w)])
    /\ \A k \in DOMAIN w : IsSpace(w[k]) => w[k] = " " /\ ~IsSpace(w[k + 1])

\* The text without its white space.
Squeezed(w) == SelectSeq(w, LAMBDA c : ~IsSpace(c))

\* The texts between the cuts, as they stand, in the order of the text.
RawPieces(t, cuts) ==
    [n \in 1..(Cardinality(cuts) + 1) |->
        Slice(t, MaxOr({c \in cuts : Cardinality({d \in cuts : d <= c}) = n - 1}, 0) + 1,
                 MinOr({c \in cuts : Cardinality({d \in cuts : d < c}) = n - 1}, Len(t) + 1) - 1)]

\* The pieces that are more than white space.
Filled(pieces) == SelectSeq(pieces, LAMBDA piece : Squeezed(piece) # <<>>)

\* out holds, in order, one statement for every piece that is more than
\* white space: the piece with its white space collapsed.
StatementsFor(out, pieces) ==
    /\ Len(out) = Len(pieces)
    /\ \A k \in DOMAIN out :
           /\ out[k] # <<>>
           /\ IsCollapsed(out[k])
           /\ Squeezed(out[k]) = Squeezed(pieces[k])
           /\ out[k] = collapse(pieces[k])

HasQuote(t) == \E k \in DOMAIN t : t[k] \in {"'", "\""}

SplitResult(t, out) ==
    /\ StatementsFor(out, Filled(RawPieces(t, Separators(t))))
    /\ ~HasQuote(t) => StatementsFor(out, Filled(RawPieces(t, {k \in DOMAIN t : t[k] = ";"})))

\* C20: the value of splitStatements is, in the order of the text, one
\* statement for every text between separators outside literals that is more
\* than white space, trimmed and with single blanks for its white space; a
\* literal open at the end of the text ends there, the value of a call
\* depends on its own text alone; without quotes the separators are all the
\* semicolons.
C20_Statements == stmts.calls > 0 => SplitResult(stmts.arg, stmts.out)

\* The second call of splitStatements has returned one statement, its whole
\* text, for a text with a quote and a semicolon after it; the text of the
\* call before began with separators and ended inside a literal.
C20_Witness ==
    /\ stmts.calls = 2
    /\ Len(stmts.before) > 2
    /\ stmts.before[1] = ";" /\ stmts.before[2] = ";"
    /\ OpenQuote(stmts.before, Len(stmts.before)) # "none"
    /\ HasQuote(stmts.arg)
    /\ stmts.out = <<stmts.arg>>

\* The calls made for the id.
UpsertsOf(id) == {k \in DOMAIN upserts.applied : upserts.applied[k].id = id}

\* The nodes of the map with the id.
UpsertedAs(id) == {k \in DOMAIN upserts.nodes : upserts.nodes[k].id = id}

\* The node of an id is a function of the set of calls made for it: the
\* least line, and function if one of the calls says so.
NodeOfCalls(id) ==
    IF UpsertsOf(id) = {} THEN UpsertedAs(id) = {}
    ELSE \E k \in UpsertedAs(id) :
            /\ UpsertedAs(id) = {k}
            /\ \A c \in UpsertsOf(id) : upserts.nodes[k].line <= upserts.applied[c].line
            /\ \E c \in UpsertsOf(id) : upserts.nodes[k].line = upserts.applied[c].line
            /\ upserts.nodes[k].kind =
                   IF \E c \in UpsertsOf(id) : upserts.applied[c].kind = "function"
                   THEN "function" ELSE "dynamic"

\* Every call made so far, made once more, leaves the map as it is.
UpsertIdempotent ==
    \A c \in DOMAIN upserts.applied :
        upsertNode(upserts.nodes, upserts.applied[c].id, upserts.applied[c].id,
                   upserts.applied[c].line, upserts.applied[c].kind) = upserts.nodes

\* C21: a call of upsertNode made a second time changes nothing, and for
\* every id but MAIN the map holds one node whose line is the least line and
\* whose kind is function if any call for the id had kind function, whatever
\* the order of the calls.
C21_UpsertOrder ==
    /\ UpsertIdempotent
    /\ \A id \in UpsertIds \ {MAIN} : NodeOfCalls(id)

\* A is referenced on line 3 with kind dynamic and then upserted for line 1
\* with kind function, and a third call repeats the second one.
C21_Witness ==
    /\ Len(upserts.applied) = 3
    /\ upserts.applied[1] = [id |-> <<"A">>, line |-> 3, kind |-> "dynamic"]
    /\ upserts.applied[2] = [id |-> <<"A">>, line |-> 1, kind |-> "function"]
    /\ upserts.applied[3] = upserts.applied[2]
    /\ \E k \in DOMAIN upserts.nodes :
           upserts.nodes[k] = [id |-> <<"A">>, label |-> <<"A">>, line |-> 1, kind |-> "function"]

\* The step is the arrival of an event of the kind.
Arrives(kind) == events' = events + 1 /\ lastEvent'.kind = kind

\* The step changes nothing but the history of the events.
NothingDone ==
    UNCHANGED <<scanVars, graphPanel, graphDocumentUri, panels, created, rendering,
                pending, editor>>

\* A panel is open.
PanelOpen == graphPanel # 0 /\ graphPanel \in DOMAIN panels

\* A scan of the text t has just been called for the document with the URI.
FreshScanFor(uri, t) ==
    /\ rendering'.uri = uri
    /\ source' = [s \in {1} |-> t]
    /\ pc' = [s \in {1} |-> "loop"]
    /\ i' = [s \in {1} |-> 0]
    /\ edges' = [s \in {1} |-> <<>>]
    /\ result' = [s \in {1} |-> NoResult]

\* The open panel shows the graph returned for the text its document has now.
PanelInSync ==
    /\ source = [s \in {1} |-> docText[graphDocumentUri]]
    /\ Done(1)
    /\ panels[graphPanel].html.graph = result[1]
    /\ \E doc \in Docs :
           /\ doc.uri = graphDocumentUri
           /\ panels[graphPanel].html.fileName = doc.fileName

\* While renderForDocument is under way the text scanned is the text of its
\* document, and the scan is at a place it can go on from.
RenderUnderWay ==
    /\ source = [s \in {1} |-> docText[rendering.uri]]
    /\ NoErrorState(1)

RefreshOnChange ==
    Arrives("change") =>
        IF PanelOpen /\ lastEvent'.uri = graphDocumentUri
        THEN /\ FreshScanFor(graphDocumentUri, docText'[graphDocumentUri])
             /\ UNCHANGED <<graphPanel, graphDocumentUri, panels, created, pending, editor>>
        ELSE NothingDone

\* C22: a change event for the document of the open panel starts a scan of
\* the text the document has now, and the panel gets the page made of its
\* result before anything else happens, so that between events the panel
\* shows the graph of the current text of its document; a change event for
\* another document or without a panel changes nothing.
C22_AutoRefresh ==
    /\ [][RefreshOnChange]_vars
    /\ []((rendering # NoDoc) => RenderUnderWay)
    /\ []((Idle /\ PanelOpen) => PanelInSync)

\* The panel was opened for an empty document and, after a change of that
\* document to b:, shows a graph with the node B.
C22_Witness ==
    /\ Idle /\ PanelOpen
    /\ lastEvent.kind = "change"
    /\ lastEvent.uri = graphDocumentUri
    /\ docText[graphDocumentUri] = <<"b", ":">>
    /\ \E k \in DOMAIN panels[graphPanel].html.graph.nodes :
           panels[graphPanel].html.graph.nodes[k].id = <<"B">>

\* The panel reference and the URI go with the panels that exist.
OnePanel ==
    /\ Cardinality(DOMAIN panels) <= 1
    /\ graphPanel = 0 => panels = <<>> /\ graphDocumentUri = Null
    /\ graphPanel # 0 => DOMAIN panels = {graphPanel}
    /\ graphDocumentUri # Null => graphPanel # 0
    /\ (Idle /\ graphPanel # 0) => graphDocumentUri # Null

\* The end of a show command: a panel is created only if there is none, the
\* panel there is stays, and the URI is the one of the active document.
ShowReuses ==
    (rendering # NoDoc /\ rendering' = NoDoc /\ lastEvent.kind = "show") =>
        /\ graphDocumentUri' = lastEvent.uri
        /\ IF panels = <<>>
           THEN created' = created + 1 /\ DOMAIN panels' = {created + 1}
           ELSE created' = created /\ DOMAIN panels' = DOMAIN panels
                    /\ graphPanel' = graphPanel

DisposeClears == Arrives("dispose") => graphPanel' = 0 /\ graphDocumentUri' = Null /\ panels' = <<>>

\* C23: at most one panel exists; the show command creates one only when
\* there is none and else keeps the panel and gives it the URI of the active
\* document; a disposal clears the reference and the URI; the URI is set
\* only while a panel exists.
C23_OnePanel ==
    /\ [](OnePanel)
    /\ [][ShowReuses /\ DisposeClears]_vars

\* After a panel was closed a second one was created, the show command was
\* then given for another document, and one panel exists.
C23_Witness ==
    /\ Idle
    /\ created = 2
    /\ events = 4
    /\ lastEvent.kind = "show"
    /\ Cardinality(DOMAIN panels) = 1
    /\ graphDocumentUri = "file:///w/B.REX"
    /\ panels[graphPanel].html.fileName # <<>>

\* The line of a message as a number of at least 1, or 1: a number is taken
\* as it is, a string of digits by its value, everything else has no number.
LineOrOne(v) ==
    IF v.t = "number" /\ v.n >= 1 THEN v.n
    ELSE IF v = Str(<<"2">>) THEN 2
    ELSE 1

\* What a message does on arrival: a revealLine message with a URI at hand
\* leaves a handler that holds that URI and the line; any other one, and
\* every message without a URI at hand, leaves nothing.
MessageTaken ==
    Arrives("message") =>
        /\ NothingDone \/ pending' # pending
        /\ UNCHANGED <<scanVars, graphPanel, graphDocumentUri, panels, created, rendering,
                       editor, docText>>
        /\ IF lastEvent'.msg # NoMessage /\ graphDocumentUri # Null
                /\ lastEvent'.msg.type = "revealLine"
           THEN pending' = Append(pending, [line |-> LineOrOne(lastEvent'.msg.line),
                                            targetUri |-> graphDocumentUri,
                                            stage |-> "open"])
           ELSE pending' = pending

\* The steps but the arrival of a message add no handler and change the URI
\* and the line of none.
HandlersKeep ==
    ~Arrives("message") =>
        \A k \in DOMAIN pending' :
            \E j \in DOMAIN pending :
                /\ pending'[k].targetUri = pending[j].targetUri
                /\ pending'[k].line = pending[j].line

\* The editor moves only at the end of a handler, to the first character of
\* the line of the handler in the document of the handler.
RevealsTarget ==
    editor' # editor =>
        \E k \in DOMAIN pending :
            /\ Len(pending') = Len(pending) - 1
            /\ editor' = [uri |-> pending[k].targetUri, line |-> pending[k].line - 1,
                          character |-> 0]
            /\ editor'.uri \in {doc.uri : doc \in Docs}
            /\ editor'.line >= 0

\* C24: a revealLine message leads the editor to the document that was the
\* one of the panel when the message arrived, at the line max(1, line), 1 for
\* a line that is missing, zero, negative or no number; the null message and
\* a message that arrives without a URI at hand leave everything as it is.
C24_RevealLine == [][MessageTaken /\ HandlersKeep /\ RevealsTarget]_vars

\* The editor is at line 3 of the document the panel had when the message
\* arrived, and the panel has gone over to another document since.
C24_Witness ==
    /\ editor = [uri |-> "file:///w/a.txt", line |-> 2, character |-> 0]
    /\ graphDocumentUri = "file:///w/B.REX"
    /\ pending = <<>>
    /\ lastEvent.kind = "message"
    /\ lastEvent.msg = NoMessage

\* The first call of addEdge in the log with the triple of the edge.
FirstCallOf(log, e) == MinOr({k \in DOMAIN log : Triple(log[k]) = Triple(e)}, 0)

\* The edges stand by line and, line by line, by the call that made them.
InDiscoveryOrder(es, log) ==
    /\ \A k \in DOMAIN log : \A j \in 1..(k - 1) : log[j].line <= log[k].line
    /\ \A k \in DOMAIN es :
           /\ FirstCallOf(log, es[k]) > 0
           /\ es[k].line = log[FirstCallOf(log, es[k])].line
           /\ \A j \in 1..(k - 1) :
                  /\ es[j].line <= es[k].line
                  /\ FirstCallOf(log, es[j]) < FirstCallOf(log, es[k])

\* A step leaves the edges there are where they are.
EdgesAppended ==
    \A s \in Scans :
        /\ Len(edges[s]') >= Len(edges[s])
        /\ \A k \in DOMAIN edges[s] : edges[s]'[k] = edges[s][k]

\* C25: the lines of the edge list never go down, an edge whose first
\* addEdge call came earlier stands before one whose first call came later,
\* no step moves an edge that is in the list, and the list is returned as it
\* is.
C25_EdgeOrder ==
    /\ [](\A s \in Scans :
             /\ InDiscoveryOrder(edges[s], addEdgeCalls[s])
             /\ Done(s) => result[s].edges = edges[s])
    /\ [][EdgesAppended]_vars

\* A returned graph with two edges of one line and a third one of a later
\* line.
C25_Witness ==
    \E s \in Scans :
        /\ Done(s)
        /\ Len(result[s].edges) = 3
        /\ result[s].edges[1].line = result[s].edges[2].line
        /\ result[s].edges[2].line < result[s].edges[3].line

\* Every node but MAIN is a declared label or the end of an edge.
NoOrphan(ns, es, declared) ==
    \A k \in DOMAIN ns :
        \/ ns[k].id = MAIN
        \/ ns[k].id \in declared
        \/ \E e \in DOMAIN es : es[e].to = ns[k].id

\* The node DYNAMIC_CALL is there only with an edge of a dynamic call or with
\* its name in the text.
DynamicNodeNeeded(ns, es, src) ==
    HasNode(ns, DYNAMIC_CALL) =>
        \/ \E e \in DOMAIN es : es[e].type = "calls-dynamic"
        \/ Contains(toUpperCase(src), DYNAMIC_CALL)

NoOrphansIn(s, declared) ==
    /\ NoOrphan(nodes[s], edges[s], declared)
    /\ DynamicNodeNeeded(nodes[s], edges[s], source[s])
    /\ Done(s) =>
           /\ NoOrphan(result[s].nodes, result[s].edges, declared)
           /\ DynamicNodeNeeded(result[s].nodes, result[s].edges, source[s])

\* C26: every node but MAIN is the id of a label declared on a line taken up
\* so far or the to of an edge, in the map and in the returned graph, and the
\* node DYNAMIC_CALL is there only if an edge of type calls-dynamic is there
\* or the text holds the name DYNAMIC_CALL.
C26_NoOrphans ==
    \A s \in Scans : NoOrphansIn(s, LabelsUpTo(CleanLines(lines[s]), LinesSeen(s)))

\* A returned graph with the node A of a label that nothing calls and the
\* node DYNAMIC_CALL of a dynamic call, for a text without that name.
C26_Witness ==
    \E s \in Scans :
        /\ Done(s)
        /\ HasNode(result[s].nodes, <<"A">>)
        /\ \A e \in DOMAIN result[s].edges : result[s].edges[e].to # <<"A">>
        /\ HasNode(result[s].nodes, DYNAMIC_CALL)
        /\ ~Contains(toUpperCase(source[s]), DYNAMIC_CALL)

\* The opening marker at p stands inside a literal of its line.
OpensInLiteral(src, p) ==
    OpenQuote(Slice(src, MaxOr({q \in 1..p : src[q] = "\n"}, 0) + 1, p - 1),
              p - 1 - MaxOr({q \in 1..p : src[q] = "\n"}, 0)) # "none"

\* The statements of a running block are those of the line without its
\* comments: the quotes are looked at after the comments have gone.
QuotesAfterComments(s, spans) ==
    /\ FollowsComments(s, spans)
    /\ pc[s] = "stmt" =>
           segs[s] = splitStatements(BlockText(collapse(KeptLine(source[s], spans, i[s] + 1))))

\* C27: the comments of a text are found without a look at its quotes, an
\* opening marker inside a literal opens one like any other, and the
\* statements are split from what is left of the line; so the graph of a
\* text is the graph of the text with everything between an opening marker
\* and the next closing marker taken out, closing quotes, calls and labels
\* included.
C27_CommentsBeforeQuotes ==
    /\ \A s \in Scans : QuotesAfterComments(s, CommentSpans(source[s], 1))
    /\ (Done(1) /\ Done(2)) => result[1] = result[2]

\* A returned graph for a text whose first comment opens inside a literal
\* and holds the closing quote and the call of B: B is no node, and D, called
\* behind the closing marker, is one.
C27_Witness ==
    /\ Done(1) /\ Done(2)
    /\ \E c \in CommentSpans(source[1], 1) :
           /\ OpensInLiteral(source[1], c.open)
           /\ c.close <= Len(source[1])
           /\ \E p \in (c.open + 2)..(c.close - 1) : StaticSiteAt(toUpperCase(source[1]), p)
    /\ ~HasNode(result[1].nodes, <<"B">>)
    /\ HasNode(result[1].nodes, <<"D">>)

\* The comments do not nest and their markers do not overlap: a comment ends
\* at the first closing marker that begins two characters behind its opening
\* marker or later, whatever opening markers lie between, and the next
\* comment begins behind that closing marker.
FlatSpans(src, spans) ==
    \A c \in spans :
        /\ PairAt(src, c.open, "/", "*")
        /\ c.close >= c.open + 2
        /\ c.close <= Len(src) => PairAt(src, c.close, "*", "/")
        /\ \A q \in (c.open + 2)..(c.close - 1) : ~PairAt(src, q, "*", "/")
        /\ \A d \in spans : d.open > c.open => d.open >= c.close + 2

\* Every opening marker outside the comments opens one.
AllOpened(src, spans) ==
    \A q \in DOMAIN src :
        PairAt(src, q, "/", "*") => \E c \in spans : c.open <= q /\ q <= c.close + 1

FlatComments(s, spans) ==
    /\ inBlockComment[s] \in BOOLEAN
    /\ FlatSpans(source[s], spans)
    /\ AllOpened(source[s], spans)
    /\ pc[s] = "loop" => inBlockComment[s] = OpenAtEnd(source[s], spans, i[s])
    /\ pc[s] = "stmt" => text[s] = BlockText(collapse(KeptLine(source[s], spans, i[s] + 1)))
    /\ Done(s) => \A k \in DOMAIN result[s].edges :
                      \E p \in DOMAIN source[s] :
                          /\ WholeWordAt(toUpperCase(source[s]), p, WordCALL)
                          /\ ~InComment(spans, p)
                          /\ LineOf(source[s], p) = result[s].edges[k].line

\* C28: the comment state is one boolean; a comment runs from an opening
\* marker to the first closing marker behind it, opening markers in between
\* count for nothing and what stands behind that closing marker is scanned;
\* the two characters of a marker are passed together, so that /*/ opens a
\* comment and does not close it.
C28_NoNesting == \A s \in Scans : FlatComments(s, CommentSpans(source[s], 1))

\* A returned graph for a text with an opening marker inside a comment and,
\* behind the first closing marker, the call of D, which is a node.
C28_Witness ==
    /\ Done(1)
    /\ \E c \in CommentSpans(source[1], 1) :
           /\ c.close <= Len(source[1])
           /\ \E q \in (c.open + 2)..(c.close - 1) : PairAt(source[1], q, "/", "*")
           /\ \E p \in (c.close + 2)..Len(source[1]) :
                  /\ StaticSiteAt(toUpperCase(source[1]), p)
                  /\ StaticTarget(toUpperCase(source[1]), p) = <<"D">>
                  /\ LineOf(source[1], p) = LineOf(source[1], c.open)
    /\ HasNode(result[1].nodes, <<"D">>)

\* The quote characters of a text, in order.
QuotesOf(t) == SelectSeq(t, IsQuoteChar)

\* The segments of a running block keep the quote characters of its text.
LiteralsKept(s) ==
    pc[s] = "stmt" => Flatten([n \in DOMAIN segs[s] |-> QuotesOf(segs[s][n])]) = QuotesOf(text[s])

\* The call sites inside a literal of the uppercased segment u have their
\* node and their edge.
QuotedSites(ns, es, scope, u) ==
    \A p \in DOMAIN u :
        (OpenQuote(u, p - 1) # "none" /\ Examined(u, p)) =>
            /\ DynamicSiteAt(u, p) =>
                   /\ HasEdge(es, scope, DYNAMIC_CALL, "calls-dynamic")
                   /\ HasNode(ns, DYNAMIC_CALL)
            /\ (StaticSiteAt(u, p) /\ StaticTarget(u, p) \notin {WordON, WordOFF}) =>
                   /\ HasEdge(es, scope, StaticTarget(u, p), "calls")
                   /\ HasNode(ns, StaticTarget(u, p))

QuotedSitesIn(ns, es, cl) ==
    \A k \in DOMAIN cl : \A n \in DOMAIN SegmentsOf(cl, k) :
        QuotedSites(ns, es, ScopeAt(cl, k), SegmentsOf(cl, k)[n])

\* C29: the statements keep their literals, and a keyword CALL inside a
\* literal, followed by a target identifier, by VALUE or by a parenthesis,
\* has its node and its edge in the returned graph like one outside.
C29_CallsInLiterals ==
    \A s \in Scans :
        /\ LiteralsKept(s)
        /\ Done(s) => QuotedSitesIn(result[s].nodes, result[s].edges, CleanLines(lines[s]))

\* A returned graph with the node H and the edge W -> H of the call inside
\* the literal of say 'call h', and with the edge of a call of B outside a
\* literal.
C29_Witness ==
    \E s \in Scans :
        /\ Done(s)
        /\ HasEdge(result[s].edges, <<"W">>, <<"H">>, "calls")
        /\ HasNode(result[s].nodes, <<"H">>)
        /\ HasEdge(result[s].edges, <<"W">>, <<"B">>, "calls")
        /\ \E k \in DOMAIN lines[s] : \E p \in DOMAIN lines[s][k] :
               /\ StaticSiteAt(toUpperCase(lines[s][k]), p)
               /\ StaticTarget(toUpperCase(lines[s][k]), p) = <<"H">>
               /\ OpenQuote(lines[s][k], p - 1) = "'"

====
